---- MODULE Spec2Model ----
(***************************************************************************)
(* Library management system: the JSON record store, the validators, the   *)
(* borrow/return engine, role gating and the per-IP rate limiter of        *)
(* src/app.py, src/utils.py and src/auth.py, as a state machine.           *)
(*                                                                         *)
(* Text values (isbn, title, e-mail, phone) are sequences of one-character *)
(* strings.  A date string 'YYYY-MM-DD' is the number of its day; None in  *)
(* a date field is NoDate.  Every request handler is one action; the       *)
(* response it produces is the variable resp.                              *)
(***************************************************************************)
EXTENDS Integers, Sequences, FiniteSets, TLC

VARIABLES books_json, members_json, transactions_json, reservations_json,
          today, ticks, request_history, clock, advances, resp,
          users_json, disk, inflight, raw_file, ret,
          file_text, calls, issued

data == <<books_json, members_json, transactions_json, reservations_json>>
vars == <<books_json, members_json, transactions_json, reservations_json,
          today, ticks, request_history, clock, advances, resp,
          users_json, disk, inflight, raw_file, ret,
          file_text, calls, issued>>

\* the bytes of one file of the record store as the system calls of the threads
\* leave them, and the call each thread is in
locked_file == <<file_text, calls>>

\* the user store, the state of the disk, the requests between their load and
\* their save, the raw files of the record store and the result of the last call
\* on it
\* the ids that the accepted borrows have given to their transactions so far
\* (a history of the run: the program keeps no such record)
rest == <<users_json, disk, inflight, raw_file, ret, locked_file, issued>>

(***************************************************************************)
(* Bounds of the model.                                                    *)
(***************************************************************************)
MaxBooks == 2
MaxMembers == 2
MaxTx == 2
MaxQty == 2
MaxTicks == 1
MaxAdvances == 1
MaxOther == 1
MaxId == 3
MaxUsers == 2
MaxRes == 2

(***************************************************************************)
(* Program constants.                                                      *)
(***************************************************************************)
GraceDays == 14
RateWindow == 60
RateMaxRequests == 100
StandardPeriod == 14

NoDate == -1

(***************************************************************************)
(* Text helpers.                                                           *)
(***************************************************************************)
RECURSIVE lstrip(_)
lstrip(s) == IF s # <<>> /\ Head(s) = " " THEN lstrip(Tail(s)) ELSE s

RECURSIVE rstrip(_)
rstrip(s) == IF s # <<>> /\ s[Len(s)] = " " THEN rstrip(SubSeq(s, 1, Len(s) - 1)) ELSE s

strip(s) == rstrip(lstrip(s))

\* bleach.clean on plain text: the markup characters are escaped
RECURSIVE bleach_clean(_)
bleach_clean(s) ==
    IF s = <<>> THEN <<>>
    ELSE LET c == Head(s)
             e == CASE c = "<" -> <<"&", "l", "t", ";">>
                    [] c = ">" -> <<"&", "g", "t", ";">>
                    [] c = "&" -> <<"&", "a", "m", "p", ";">>
                    [] OTHER -> <<c>>
         IN e \o bleach_clean(Tail(s))

sanitize_input(s) == bleach_clean(strip(s))

IsDigit(c) == c \in {"0", "1", "2", "3", "4", "5", "6", "7", "8", "9"}

DigitVal(c) ==
    CASE c = "0" -> 0 [] c = "1" -> 1 [] c = "2" -> 2 [] c = "3" -> 3
      [] c = "4" -> 4 [] c = "5" -> 5 [] c = "6" -> 6 [] c = "7" -> 7
      [] c = "8" -> 8 [] c = "9" -> 9 [] c = "X" -> 10 [] OTHER -> 0

upper(c) == IF c = "x" THEN "X" ELSE c

\* re.sub(r'[^0-9X]', '', isbn.upper())
RECURSIVE isbn_clean(_)
isbn_clean(s) ==
    IF s = <<>> THEN <<>>
    ELSE LET c == upper(Head(s))
         IN (IF IsDigit(c) \/ c = "X" THEN <<c>> ELSE <<>>) \o isbn_clean(Tail(s))

RECURSIVE SumTo(_, _)
SumTo(f, n) == IF n = 0 THEN 0 ELSE f[n] + SumTo(f, n - 1)

is_valid_isbn(isbn) ==
    IF isbn = <<>> THEN FALSE
    ELSE LET s == isbn_clean(isbn)
         IN IF Len(s) = 10
            THEN /\ \A i \in 1..9 : IsDigit(s[i])
                 /\ SumTo([i \in 1..10 |-> (11 - i) * DigitVal(s[i])], 10) % 11 = 0
            ELSE IF Len(s) = 13
            THEN /\ \A i \in 1..13 : IsDigit(s[i])
                 /\ SumTo([i \in 1..13 |-> (IF i % 2 = 0 THEN 3 ELSE 1) * DigitVal(s[i])], 13) % 10 = 0
            ELSE FALSE

\* a quantity form field: text that int() parses to n, or text that int() refuses
QtyText(n) == [k |-> "int", n |-> n]
QtyNaN == [k |-> "nan", n |-> 0]

\* 'field not in book or not book[field]', then the quantity and the string checks
validate_book(book) ==
    /\ book.title # <<>>
    /\ book.author # <<>>
    /\ book.isbn # <<>>
    /\ book.quantity # 0
    /\ ~(book.quantity < 0)
    /\ strip(book.title) # <<>>
    /\ strip(book.author) # <<>>

\* email_validator.validate_email: one "@" with a non-empty part on each side
CountAt(s) == Cardinality({i \in 1..Len(s) : s[i] = "@"})
validate_email(s) ==
    /\ CountAt(s) = 1
    /\ s[1] # "@"
    /\ s[Len(s)] # "@"
    /\ \A i \in 1..Len(s) : s[i] # " "

DigitCount(s) == Cardinality({i \in 1..Len(s) : IsDigit(s[i])})

validate_member(member) ==
    /\ member.name # <<>>
    /\ member.email # <<>>
    /\ member.phone # <<>>
    /\ validate_email(member.email)
    /\ ~(DigitCount(member.phone) < 10)
    /\ strip(member.name) # <<>>

(***************************************************************************)
(* Record store and record operations.                                     *)
(***************************************************************************)
\* the collection a file holds (an absent file reads as the empty list)
load_data(file) == file

\* the file after save_data: json.dump of the whole collection; when open() raises
\* IOError the file is as it was, when the write raises it the file was truncated
\* by open(filepath, 'w') and reads as the empty list
save_data(file, records) ==
    CASE disk = "ok" -> records
      [] disk = "readonly" -> file
      [] OTHER -> <<>>

\* index of the first record whose key field has the value, 0 when none
FirstIdx(records, field, value) ==
    IF \E i \in 1..Len(records) : records[i][field] = value
    THEN CHOOSE i \in 1..Len(records) :
            /\ records[i][field] = value
            /\ \A j \in 1..(i - 1) : records[j][field] # value
    ELSE 0

get_record(file, field, value) ==
    LET recs == load_data(file)
        i == FirstIdx(recs, field, value)
    IN IF i = 0 THEN <<>> ELSE <<recs[i]>>

\* dict.update: the fields of new_data replace or extend those of item
dict_update(item, new_data) ==
    [f \in DOMAIN item \cup DOMAIN new_data |->
        IF f \in DOMAIN new_data THEN new_data[f] ELSE item[f]]

\* item.update(new_data) on the first match, then the whole list is saved
update_record(file, field, value, new_data) ==
    LET recs == load_data(file)
        i == FirstIdx(recs, field, value)
    IN save_data(file, IF i = 0 THEN recs ELSE [recs EXCEPT ![i] = dict_update(recs[i], new_data)])

RECURSIVE Filter(_, _, _)
Filter(records, field, value) ==
    IF records = <<>> THEN <<>>
    ELSE (IF Head(records)[field] # value THEN <<Head(records)>> ELSE <<>>)
         \o Filter(Tail(records), field, value)

delete_record(file, field, value) ==
    save_data(file, Filter(load_data(file), field, value))

(***************************************************************************)
(* Access control.                                                         *)
(***************************************************************************)
Anonymous == "anonymous"
Roles == {"admin", "librarian", "staff", "user"}
Requesters == {Anonymous} \cup Roles

StaffRoles == {"admin", "librarian"}

\* the routes with @login_required
LoginRequired ==
    {"books", "edit_book", "delete_book", "members", "edit_member", "delete_member",
     "transactions", "delete_transaction", "reservations", "edit_reservation",
     "cancel_reservation", "dashboard", "reports"}

\* a variant in which delete_book and delete_transaction carry no @requires_role
RouteRoles_without_delete ==
    [r \in {"books", "edit_book", "members", "edit_member", "delete_member",
            "transactions", "reservations", "edit_reservation",
            "cancel_reservation", "reports"} |-> {"admin", "librarian"}]

\* the argument of @requires_role on each route that has the decorator
RouteRoles ==
    [r \in {"books", "edit_book", "delete_book", "members", "edit_member",
            "delete_member", "transactions", "delete_transaction", "reservations",
            "edit_reservation", "cancel_reservation", "reports"} |-> StaffRoles]

Response(route, who, status, to, cat, flash, body) ==
    [route |-> route, who |-> who, status |-> status, to |-> to,
     cat |-> cat, flash |-> flash, body |-> body]

\* what the decorators of a route decide for a requester:
\* "login" (login_required, or requires_role on an unauthenticated user),
\* "dashboard" (requires_role), "run" (the view function is called)
requires_role(route, who) ==
    IF route \in LoginRequired /\ who = Anonymous THEN "login"
    ELSE IF route \in DOMAIN RouteRoles /\ who = Anonymous THEN "login"
    ELSE IF route \in DOMAIN RouteRoles /\ who \notin RouteRoles[route] THEN "dashboard"
    ELSE "run"

\* the redirect of a request the decorators stop
Denied(route, who) ==
    /\ requires_role(route, who) # "run"
    /\ resp' = Response(route, who, 302, requires_role(route, who), "error",
                        IF requires_role(route, who) = "login"
                        THEN "Please log in to access this page."
                        ELSE "You do not have permission to access this page.",
                        {})
    /\ UNCHANGED data

NoResponse == Response("none", Anonymous, 200, "none", "none", "", {})

(***************************************************************************)
(* The files of the record store.  A file is absent, or holds a JSON text, *)
(* or text that is no JSON document (empty, cut short), or bytes that are  *)
(* no text.  A Python value and a JSON value carry their type; a record is *)
(* the sequence of its (key, value) pairs.                                 *)
(***************************************************************************)
PyStr(s) == [t |-> "str", n |-> 0, s |-> s]
PyInt(n) == [t |-> "int", n |-> n, s |-> <<>>]
PyNone == [t |-> "NoneType", n |-> 0, s |-> <<>>]

JString(s) == [t |-> "string", n |-> 0, s |-> s]
JNumber(n) == [t |-> "number", n |-> n, s |-> <<>>]
JNull == [t |-> "null", n |-> 0, s |-> <<>>]

\* a variant that writes None the way default=str would
json_dump_value_str(v) ==
    CASE v.t = "str" -> JString(v.s)
      [] v.t = "int" -> JNumber(v.n)
      [] OTHER -> JString(<<"N", "o", "n", "e">>)

\* json.dump of a field value
json_dump_value(v) ==
    CASE v.t = "str" -> JString(v.s)
      [] v.t = "int" -> JNumber(v.n)
      [] OTHER -> JNull

\* json.load of a field value
json_load_value(j) ==
    CASE j.t = "string" -> PyStr(j.s)
      [] j.t = "number" -> PyInt(j.n)
      [] OTHER -> PyNone

\* json.dump(data, f, indent=4) of a list of dicts with string keys
json_dump(records) ==
    [i \in DOMAIN records |->
        [k \in DOMAIN records[i] |-> <<records[i][k][1], json_dump_value(records[i][k][2])>>]]

\* json.load(f) of an array of objects
json_load(text) ==
    [i \in DOMAIN text |->
        [k \in DOMAIN text[i] |-> <<text[i][k][1], json_load_value(text[i][k][2])>>]]

\* os.path.basename
RECURSIVE basename(_)
basename(name) ==
    IF \E i \in 1..Len(name) : name[i] = "/"
    THEN basename(Tail(name))
    ELSE name

DotJson == <<".", "j", "s", "o", "n">>

endswith(s, suffix) ==
    /\ Len(s) >= Len(suffix)
    /\ SubSeq(s, Len(s) - Len(suffix) + 1, Len(s)) = suffix

\* secure_filename: the path under data/
secure_filename(filename) ==
    LET base == basename(filename)
    IN IF endswith(base, DotJson) THEN base ELSE base \o DotJson

StoreNames ==
    {<<"b", ".", "j", "s", "o", "n">>, <<"b">>, <<".", ".", "/", "b", ".", "j", "s", "o", "n">>,
     <<"m", ".", "j", "s", "o", "n">>}
StorePaths == {secure_filename(name) : name \in StoreNames}

JsonFile(text) == [kind |-> "json", json |-> text]
NotJson == [kind |-> "text", json |-> <<>>]
NotText == [kind |-> "bytes", json |-> <<>>]

FrozenStore ==
    UNCHANGED <<data, today, ticks, request_history, clock, advances, resp,
                users_json, inflight, locked_file, issued>>

\* load_data(filename) on the files: the value returned or the exception raised
load_data_call(filename) ==
    LET file == raw_file[secure_filename(filename)]
        call(value, raised) ==
            [op |-> "load_data", name |-> filename, arg |-> <<>>, value |-> value,
             ok |-> raised = "none", raised |-> raised]
    IN /\ ret' = CASE file.kind = "absent" -> call(<<>>, "none")
                    [] file.kind = "json" -> call(json_load(file.json), "none")
                    [] file.kind = "text" -> call(<<>>, "none")
                    [] OTHER -> call(<<>>, "UnicodeDecodeError")
       /\ UNCHANGED <<raw_file, disk>>

\* save_data(filename, data) on the files
save_data_call(filename, records) ==
    LET filepath == secure_filename(filename)
        call(ok) ==
            [op |-> "save_data", name |-> filename, arg |-> records, value |-> <<>>,
             ok |-> ok, raised |-> "none"]
    IN /\ raw_file' = CASE disk = "ok" ->
                             [raw_file EXCEPT ![filepath] = JsonFile(json_dump(records))]
                         [] disk = "readonly" -> raw_file
                         [] OTHER -> [raw_file EXCEPT ![filepath] = NotJson]
       /\ ret' = call(disk = "ok")
       /\ UNCHANGED disk

(***************************************************************************)
(* The user store of src/auth.py: users.json is a dict from the user id to *)
(* the user's record.  The id str(n) is the number n.                      *)
(***************************************************************************)
AdminEmail == "admin@library.com"

UserRec(username, email, password, role) ==
    [username |-> username, email |-> email, password |-> password, role |-> role]

\* users.json after init_user_storage on an empty data directory
SeedUsers == (1 :> UserRec("admin", AdminEmail, "admin123", "admin"))

Workers == {"w1", "w2"}
Idle == [busy |-> FALSE, route |-> "none", records |-> <<>>, cat |-> "none", flash |-> ""]

NoFile == [kind |-> "absent", json |-> <<>>]
\* a thread that is in no call on the file
NoHandle == [pc |-> "idle", lock |-> "none", buffer |-> <<>>, records |-> <<>>]
NoCall == [op |-> "none", name |-> <<>>, arg |-> <<>>, value |-> <<>>, ok |-> TRUE, raised |-> "none"]

InitRest ==
    /\ users_json = SeedUsers
    /\ disk = "ok"
    /\ inflight = [w \in Workers |-> Idle]
    /\ raw_file = [path \in StorePaths |-> NoFile]
    /\ ret = NoCall
    /\ file_text = <<>>
    /\ calls = [w \in Workers |-> NoHandle]
    /\ issued = {}

\* load_users: the dict the file holds
load_users == users_json

\* save_users: json.dump of the whole dict, True; False when the write raised
save_users(users) ==
    CASE disk = "ok" -> [file |-> users, result |-> TRUE]
      [] disk = "readonly" -> [file |-> users_json, result |-> FALSE]
      [] OTHER -> [file |-> <<>>, result |-> FALSE]

CallResult(op, user, ok) ==
    [op |-> op, name |-> user, arg |-> <<>>, value |-> <<>>, ok |-> ok, raised |-> "none"]

FrozenAuth ==
    UNCHANGED <<data, today, ticks, request_history, clock, advances, resp,
                disk, inflight, raw_file, locked_file, issued>>

\* register_user(username, email, password, role)
register_user(username, email, password, role) ==
    LET users == load_users
        user_id == Cardinality(DOMAIN users) + 1
        saved == save_users((user_id :> UserRec(username, email, password, role)) @@ users)
    IN IF \E u \in DOMAIN users :
             users[u].username = username \/ users[u].email = email
       THEN /\ ret' = CallResult("register_user", <<username>>, FALSE)
            /\ UNCHANGED users_json
       ELSE /\ user_id <= MaxUsers
            /\ users_json' = saved.file
            /\ ret' = CallResult("register_user", <<username>>, saved.result)

\* update_user(user_id, username, email, role, password)
update_user(user_id, username, email, role, password) ==
    LET users == load_users
    IN IF user_id \notin DOMAIN users
       THEN /\ ret' = CallResult("update_user", <<user_id>>, FALSE)
            /\ UNCHANGED users_json
       ELSE IF /\ email # users[user_id].email
               /\ \E uid \in DOMAIN users : uid # user_id /\ users[uid].email = email
       THEN /\ ret' = CallResult("update_user", <<user_id>>, FALSE)
            /\ UNCHANGED users_json
       ELSE LET saved == save_users(
                   [users EXCEPT ![user_id] =
                       UserRec(username, email,
                               IF password # "" THEN password ELSE users[user_id].password,
                               role)])
            IN /\ users_json' = saved.file
               /\ ret' = CallResult("update_user", <<user_id>>, saved.result)

\* delete_user(user_id)
delete_user(user_id) ==
    LET users == load_users
    IN IF user_id \notin DOMAIN users \/ users[user_id].email = AdminEmail
       THEN /\ ret' = CallResult("delete_user", <<user_id>>, FALSE)
            /\ UNCHANGED users_json
       ELSE LET saved == save_users([u \in DOMAIN users \ {user_id} |-> users[u]])
            IN /\ users_json' = saved.file
               /\ ret' = CallResult("delete_user", <<user_id>>, saved.result)

Init ==
    /\ books_json = <<>>
    /\ members_json = <<>>
    /\ transactions_json = <<>>
    /\ reservations_json = <<>>
    /\ today = 0
    /\ ticks = 0
    /\ request_history = [ip \in {"ip1", "ip2"} |-> <<>>]
    /\ clock = 0
    /\ advances = 0
    /\ resp = NoResponse
    /\ InitRest

(***************************************************************************)
(* Books.                                                                  *)
(***************************************************************************)
\* POST /books
books_post(who, title, author, isbn, quantity) ==
    IF requires_role("books", who) # "run" THEN Denied("books", who)
    ELSE
       /\ UNCHANGED <<members_json, transactions_json, reservations_json>>
       /\ IF quantity.k = "nan"
          THEN /\ resp' = Response("books", who, 200, "books", "error", "Invalid input", {"books"})
               /\ UNCHANGED books_json
          ELSE LET book_data == [title |-> sanitize_input(title),
                                 author |-> sanitize_input(author),
                                 isbn |-> sanitize_input(isbn),
                                 quantity |-> quantity.n]
                   books == load_data(books_json)
               IN IF ~validate_book(book_data)
                  THEN /\ resp' = Response("books", who, 200, "books", "error",
                                           "Please check the book details.", {"books"})
                       /\ UNCHANGED books_json
                  ELSE IF \E i \in 1..Len(books) : books[i].isbn = book_data.isbn
                  THEN /\ resp' = Response("books", who, 200, "books", "error",
                                           "A book with this ISBN already exists!", {"books"})
                       /\ UNCHANGED books_json
                  ELSE /\ Len(books) < MaxBooks
                       /\ books_json' = save_data(books_json, Append(books, book_data))
                       /\ resp' = Response("books", who, 200, "books", "success",
                                           "Book added successfully!", {"books"})

\* POST /books/<isbn>/edit
edit_book(who, key, title, author, isbn, quantity) ==
    IF requires_role("edit_book", who) # "run" THEN Denied("edit_book", who)
    ELSE
       /\ UNCHANGED <<members_json, transactions_json, reservations_json>>
       /\ IF quantity.k = "nan"
          THEN /\ resp' = Response("edit_book", who, 302, "edit_book", "error", "Invalid input", {})
               /\ UNCHANGED books_json
          ELSE LET book_data == [title |-> sanitize_input(title),
                                 author |-> sanitize_input(author),
                                 isbn |-> sanitize_input(isbn),
                                 quantity |-> quantity.n]
               IN IF validate_book(book_data)
                  THEN /\ books_json' = update_record(books_json, "isbn", key, book_data)
                       /\ resp' = Response("edit_book", who, 302, "books", "success",
                                           "Book updated successfully!", {})
                  ELSE /\ UNCHANGED books_json
                       /\ IF get_record(books_json, "isbn", key) = <<>>
                          THEN resp' = Response("edit_book", who, 302, "books", "error",
                                                "Book not found!", {})
                          ELSE resp' = Response("edit_book", who, 200, "edit_book", "error",
                                                "Invalid book data!", {"books"})

\* GET /books/<isbn>/delete
delete_book(who, key) ==
    IF requires_role("delete_book", who) # "run" THEN Denied("delete_book", who)
    ELSE
       /\ books_json' = delete_record(books_json, "isbn", key)
       /\ resp' = Response("delete_book", who, 302, "books", "success",
                           "Book deleted successfully!", {})
       /\ UNCHANGED <<members_json, transactions_json, reservations_json>>

(***************************************************************************)
(* Members.                                                                *)
(***************************************************************************)
\* POST /members
members_post(who, name, email, phone) ==
    IF requires_role("members", who) # "run" THEN Denied("members", who)
    ELSE
       /\ UNCHANGED <<books_json, transactions_json, reservations_json>>
       /\ LET member_data == [name |-> sanitize_input(name),
                              email |-> sanitize_input(email),
                              phone |-> sanitize_input(phone)]
              members == load_data(members_json)
          IN IF ~validate_member(member_data)
             THEN /\ resp' = Response("members", who, 200, "members", "error",
                                      "Please check the member details.", {"members"})
                  /\ UNCHANGED members_json
             ELSE IF \E i \in 1..Len(members) : members[i].email = member_data.email
             THEN /\ resp' = Response("members", who, 200, "members", "error",
                                      "A member with this email already exists!", {"members"})
                  /\ UNCHANGED members_json
             ELSE /\ Len(members) < MaxMembers
                  /\ members_json' = save_data(members_json, Append(members, member_data))
                  /\ resp' = Response("members", who, 200, "members", "success",
                                      "Member added successfully!", {"members"})

\* POST /members/<email>/edit
edit_member(who, key, name, email, phone) ==
    IF requires_role("edit_member", who) # "run" THEN Denied("edit_member", who)
    ELSE
       /\ UNCHANGED <<books_json, transactions_json, reservations_json>>
       /\ LET member_data == [name |-> sanitize_input(name),
                              email |-> sanitize_input(email),
                              phone |-> sanitize_input(phone)]
          IN IF validate_member(member_data)
             THEN /\ members_json' = update_record(members_json, "email", key, member_data)
                  /\ resp' = Response("edit_member", who, 302, "members", "success",
                                      "Member updated successfully!", {})
             ELSE /\ UNCHANGED members_json
                  /\ IF get_record(members_json, "email", key) = <<>>
                     THEN resp' = Response("edit_member", who, 302, "members", "error",
                                           "Member not found!", {})
                     ELSE resp' = Response("edit_member", who, 200, "edit_member", "error",
                                           "Invalid member data!", {"members"})

\* GET /members/<email>/delete
delete_member(who, key) ==
    IF requires_role("delete_member", who) # "run" THEN Denied("delete_member", who)
    ELSE
       /\ members_json' = delete_record(members_json, "email", key)
       /\ resp' = Response("delete_member", who, 302, "members", "success",
                           "Member deleted successfully!", {})
       /\ UNCHANGED <<books_json, transactions_json, reservations_json>>

(***************************************************************************)
(* Transactions: the borrow/return engine.                                 *)
(***************************************************************************)
\* a date form field: a well-formed 'YYYY-MM-DD' of day d, malformed text, or empty
DateText(d) == [k |-> "iso", d |-> d]
DateBad == [k |-> "bad", d |-> 0]
DateEmpty == [k |-> "empty", d |-> 0]

\* a variant that counts the active loans of every book
active_borrows_any_book(transactions, book_isbn) ==
    Cardinality({i \in 1..Len(transactions) : transactions[i].return_date = NoDate})

\* sum(1 for t in transactions if t['book_isbn'] == book_isbn and not t['return_date'])
RECURSIVE active_borrows(_, _)
active_borrows(transactions, book_isbn) ==
    IF transactions = <<>> THEN 0
    ELSE (IF Head(transactions).book_isbn = book_isbn /\ Head(transactions).return_date = NoDate
          THEN 1 ELSE 0) + active_borrows(Tail(transactions), book_isbn)

\* a variant that lets one loan more than the quantity through
not_available_above(transactions, book) ==
    Cardinality({i \in 1..Len(transactions) :
                    /\ transactions[i].book_isbn = book.isbn
                    /\ transactions[i].return_date = NoDate}) > book.quantity

\* 'if active_borrows >= book['quantity']'
not_available(transactions, book) ==
    active_borrows(transactions, book.isbn) >= book.quantity

\* a variant that already counts a loan of exactly GraceDays days
overdue_books_from_grace(transactions, member_email, now) ==
    \E i \in 1..Len(transactions) :
        /\ transactions[i].member_email = member_email
        /\ transactions[i].return_date = NoDate
        /\ now - transactions[i].borrow_date >= GraceDays

\* the overdue_books comprehension is non-empty
overdue_books(transactions, member_email, now) ==
    \E i \in 1..Len(transactions) :
        /\ transactions[i].member_email = member_email
        /\ transactions[i].return_date = NoDate
        /\ now - transactions[i].borrow_date > GraceDays

\* max((t['id'] for t in transactions), default=0) + 1
RECURSIVE max_id(_)
max_id(transactions) ==
    IF transactions = <<>> THEN 0
    ELSE LET m == max_id(Tail(transactions))
         IN IF Head(transactions).id > m THEN Head(transactions).id ELSE m

\* a variant that counts the records
next_id_by_count(transactions) == Len(transactions) + 1

next_id(transactions) == max_id(transactions) + 1

\* a variant without the comparison of the two dates
return_before_borrow_never(trans_date, record) == FALSE

\* 'if trans_date < borrow_date'
return_before_borrow(trans_date, record) == trans_date < record.borrow_date

\* a variant that stops after the first of the two tests
deletable_with_any_date(transaction) ==
    transaction.return_date # NoDate \/ transaction.borrow_date # NoDate

\* delete_transaction's guard: a record with a return_date, or else with a borrow_date
\* and then again with a return_date
deletable(transaction) ==
    /\ (transaction.return_date # NoDate \/ transaction.borrow_date # NoDate)
    /\ transaction.return_date # NoDate

\* a variant that matches the active record of the book whoever the member is
borrow_record_any_member(transactions, book_isbn, member_email) ==
    LET match(i) == /\ transactions[i].book_isbn = book_isbn
                    /\ transactions[i].return_date = NoDate
    IN IF \E i \in 1..Len(transactions) : match(i)
       THEN CHOOSE i \in 1..Len(transactions) :
               match(i) /\ \A j \in 1..(i - 1) : ~match(j)
       ELSE 0

borrow_record_last(transactions, book_isbn, member_email) ==
    LET match(i) == /\ transactions[i].book_isbn = book_isbn
                    /\ transactions[i].member_email = member_email
                    /\ transactions[i].return_date = NoDate
    IN IF \E i \in 1..Len(transactions) : match(i)
       THEN CHOOSE i \in 1..Len(transactions) :
               match(i) /\ \A j \in (i + 1)..Len(transactions) : ~match(j)
       ELSE 0

\* index of the first active record of the book and the member, 0 when none
borrow_record(transactions, book_isbn, member_email) ==
    LET match(i) == /\ transactions[i].book_isbn = book_isbn
                    /\ transactions[i].member_email = member_email
                    /\ transactions[i].return_date = NoDate
    IN IF \E i \in 1..Len(transactions) : match(i)
       THEN CHOOSE i \in 1..Len(transactions) :
               match(i) /\ \A j \in 1..(i - 1) : ~match(j)
       ELSE 0

TxRedirect(who, cat, flash) == Response("transactions", who, 302, "transactions", cat, flash, {})

\* POST /transactions
transactions_post(who, isbn_in, email_in, type, date) ==
    IF requires_role("transactions", who) # "run" THEN Denied("transactions", who)
    ELSE
    LET book_isbn == sanitize_input(isbn_in)
        member_email == sanitize_input(email_in)
        books == load_data(books_json)
        members == load_data(members_json)
        transactions == load_data(transactions_json)
        b == FirstIdx(books, "isbn", book_isbn)
        m == FirstIdx(members, "email", member_email)
    IN
    /\ UNCHANGED <<books_json, members_json, reservations_json>>
    /\ IF book_isbn = <<>> \/ member_email = <<>> \/ type = "" \/ date.k = "empty"
       THEN /\ resp' = TxRedirect(who, "error", "All fields are required.")
            /\ UNCHANGED transactions_json
       ELSE IF date.k = "bad"
       THEN /\ resp' = TxRedirect(who, "error", "Invalid date format.")
            /\ UNCHANGED transactions_json
       ELSE IF date.d > today
       THEN /\ resp' = TxRedirect(who, "error", "Transaction date cannot be in the future.")
            /\ UNCHANGED transactions_json
       ELSE IF b = 0
       THEN /\ resp' = TxRedirect(who, "error", "Book not found.")
            /\ UNCHANGED transactions_json
       ELSE IF m = 0
       THEN /\ resp' = TxRedirect(who, "error", "Member not found.")
            /\ UNCHANGED transactions_json
       ELSE IF type = "borrow"
       THEN IF not_available(transactions, books[b])
            THEN /\ resp' = TxRedirect(who, "error", "This book is not available for borrowing.")
                 /\ UNCHANGED transactions_json
            ELSE IF overdue_books(transactions, member_email, today)
            THEN /\ resp' = TxRedirect(who, "error", "Member has overdue books. Please return them first.")
                 /\ UNCHANGED transactions_json
            ELSE /\ Len(transactions) < MaxTx
                 /\ next_id(transactions) <= MaxId
                 /\ transactions_json' = save_data(transactions_json,
                        Append(transactions,
                               [id |-> next_id(transactions),
                                book_isbn |-> book_isbn,
                                book_title |-> books[b].title,
                                member_email |-> member_email,
                                member_name |-> members[m].name,
                                borrow_date |-> date.d,
                                return_date |-> NoDate]))
                 /\ resp' = TxRedirect(who, "success", "Book borrowed successfully!")
       ELSE IF type = "return"
       THEN LET r == borrow_record(transactions, book_isbn, member_email)
            IN IF r = 0
               THEN /\ resp' = TxRedirect(who, "error", "No active borrow record found for this book and member.")
                    /\ UNCHANGED transactions_json
               ELSE IF return_before_borrow(date.d, transactions[r])
               THEN /\ resp' = TxRedirect(who, "error", "Return date cannot be before the borrow date.")
                    /\ UNCHANGED transactions_json
               ELSE /\ transactions_json' = save_data(transactions_json,
                           [transactions EXCEPT ![r].return_date = date.d])
                    /\ resp' = TxRedirect(who, "success", "Book returned successfully!")
       ELSE /\ transactions_json' = save_data(transactions_json, transactions)
            /\ resp' = TxRedirect(who, "none", "")

\* GET /transactions/<int:id>/delete
delete_transaction(who, id) ==
    IF requires_role("delete_transaction", who) # "run" THEN Denied("delete_transaction", who)
    ELSE
    LET transactions == load_data(transactions_json)
        i == FirstIdx(transactions, "id", id)
    IN
    /\ UNCHANGED <<books_json, members_json, reservations_json>>
    /\ IF i = 0
       THEN /\ resp' = Response("delete_transaction", who, 302, "transactions", "error",
                                "Transaction not found!", {})
            /\ UNCHANGED transactions_json
       ELSE IF ~deletable(transactions[i])
       THEN /\ resp' = Response("delete_transaction", who, 302, "transactions", "error",
                                "Cannot delete an active borrow transaction. Return the book first.", {})
            /\ UNCHANGED transactions_json
       ELSE /\ transactions_json' = save_data(transactions_json, Filter(transactions, "id", id))
            /\ resp' = Response("delete_transaction", who, 302, "transactions", "success",
                                "Transaction deleted successfully!", {})

\* the calendar day of datetime.now() moves on between two requests
Tick(k) ==
    /\ ticks < MaxTicks
    /\ today' = today + k
    /\ ticks' = ticks + 1
    /\ UNCHANGED <<data, request_history, clock, advances, resp, rest>>

(***************************************************************************)
(* Reservations.                                                           *)
(***************************************************************************)
\* a variant without the comparison of the due date with datetime.now()
validate_reservation_any_day(reservation, now, later_today) ==
    /\ reservation.book_isbn # <<>>
    /\ reservation.member_email # <<>>
    /\ reservation.due_date.k # "empty"
    /\ reservation.status \in {"active", "cancelled", "completed"}
    /\ reservation.due_date.k # "bad"

\* validate_reservation: the fields are present, the status is one of the three, both
\* dates parse, and the due date (at 00:00) is not before datetime.now(); later_today
\* says that now is past 00:00:00 of today
validate_reservation(reservation, now, later_today) ==
    /\ reservation.book_isbn # <<>>
    /\ reservation.member_email # <<>>
    /\ reservation.status # ""
    /\ reservation.due_date.k # "empty"
    /\ reservation.status \in {"active", "cancelled", "completed"}
    /\ reservation.due_date.k # "bad"
    /\ ~(reservation.due_date.d < now \/ (reservation.due_date.d = now /\ later_today))

\* POST /reservations
reservations_post(who, isbn_in, email_in, due_date, later_today) ==
    IF requires_role("reservations", who) # "run" THEN Denied("reservations", who)
    ELSE
    LET books == load_data(books_json)
        members == load_data(members_json)
        book_isbn == sanitize_input(isbn_in)
        member_email == sanitize_input(email_in)
        b == FirstIdx(books, "isbn", book_isbn)
        m == FirstIdx(members, "email", member_email)
    IN
    /\ UNCHANGED <<books_json, members_json, transactions_json>>
    /\ IF b = 0 \/ m = 0
       THEN /\ resp' = Response("reservations", who, 302, "reservations", "error",
                                "Invalid book or member selected.", {})
            /\ UNCHANGED reservations_json
       ELSE LET reservation_data ==
                    [book_isbn |-> book_isbn, book_title |-> books[b].title,
                     member_email |-> member_email, member_name |-> members[m].name,
                     status |-> "active", reserved_date |-> today, due_date |-> due_date]
                reservations == load_data(reservations_json)
            IN IF validate_reservation(reservation_data, today, later_today)
               THEN /\ Len(reservations) < MaxRes
                    /\ reservations_json' = save_data(reservations_json,
                           Append(reservations,
                                  dict_update(reservation_data, [id |-> Len(reservations) + 1])))
                    /\ resp' = Response("reservations", who, 200, "reservations", "success",
                                        "Reservation added successfully!",
                                        {"reservations", "books", "members"})
               ELSE /\ UNCHANGED reservations_json
                    /\ resp' = Response("reservations", who, 200, "reservations", "error",
                                        "Please check the due date and ensure all fields are filled correctly.",
                                        {"reservations", "books", "members"})

\* POST /reservations/<reservation_id>/edit
edit_reservation(who, reservation_id, status, due_date) ==
    IF requires_role("edit_reservation", who) # "run" THEN Denied("edit_reservation", who)
    ELSE
    LET reservations == load_data(reservations_json)
        i == FirstIdx(reservations, "id", reservation_id)
    IN
    /\ reservations_json' = save_data(reservations_json,
           IF i = 0 THEN reservations
           ELSE [reservations EXCEPT ![i].status = status, ![i].due_date = due_date])
    /\ resp' = Response("edit_reservation", who, 302, "reservations", "success",
                        "Reservation updated successfully!", {})
    /\ UNCHANGED <<books_json, members_json, transactions_json>>

\* GET /reservations/<reservation_id>/cancel
cancel_reservation(who, reservation_id) ==
    IF requires_role("cancel_reservation", who) # "run" THEN Denied("cancel_reservation", who)
    ELSE
    LET reservations == load_data(reservations_json)
        i == FirstIdx(reservations, "id", reservation_id)
    IN
    /\ reservations_json' = save_data(reservations_json,
           IF i = 0 THEN reservations
           ELSE [reservations EXCEPT ![i].status = "cancelled"])
    /\ resp' = Response("cancel_reservation", who, 302, "reservations", "success",
                        "Reservation cancelled successfully!", {})
    /\ UNCHANGED <<books_json, members_json, transactions_json>>

(***************************************************************************)
(* Pages and exports: the requests that only read.                         *)
(***************************************************************************)
\* the collections each page loads and renders
PageData ==
    [r \in {"books", "members", "transactions", "reservations", "dashboard", "reports"} |->
        CASE r = "books" -> {"books"}
          [] r = "members" -> {"members"}
          [] r = "reservations" -> {"reservations", "books", "members"}
          [] OTHER -> {"books", "members", "transactions"}]

\* GET of a page
page_get(who, route) ==
    IF requires_role(route, who) # "run" THEN Denied(route, who)
    ELSE /\ resp' = Response(route, who, 200, route, "none", "", PageData[route])
         /\ UNCHANGED data

\* GET /export/<data_type>/<format>
export_data(who, data_type, format) ==
    IF requires_role("export_data", who) # "run" THEN Denied("export_data", who)
    ELSE /\ UNCHANGED data
         /\ IF data_type \notin {"books", "members"}
            THEN resp' = Response("export_data", who, 302, "dashboard", "error",
                                  "Invalid data type for export", {})
            ELSE IF format \in {"csv", "pdf"}
            THEN resp' = Response("export_data", who, 200, "export_data", "none", "", {data_type})
            ELSE resp' = Response("export_data", who, 302, "dashboard", "error",
                                  "Invalid export format", {})

(***************************************************************************)
(* The rate limiter.                                                       *)
(***************************************************************************)
\* a variant that keeps the requests that are exactly one window old
clean_old_keeps_window(history, current_time) ==
    SelectSeq(history, LAMBDA t : current_time - t <= RateWindow)

\* [t for t in request_history[client_ip] if current_time - t < RATE_LIMIT['window']]
clean_old(history, current_time) ==
    SelectSeq(history, LAMBDA t : current_time - t < RateWindow)

\* a variant that answers 429 one request later
over_limit_above(history) == Len(history) > RateMaxRequests

\* 'if len(request_history[client_ip]) >= RATE_LIMIT['max_requests']'
over_limit(history) == Len(history) >= RateMaxRequests

\* rate_limit_check: the history of the client after the call, and the result
rate_limit_check(client_ip, current_time) ==
    LET recent == clean_old(request_history[client_ip], current_time)
    IN IF over_limit(recent)
       THEN [history |-> recent, ok |-> FALSE]
       ELSE [history |-> Append(recent, current_time), ok |-> TRUE]

\* before_request, then the route's handler unless rate_limit_check answered 429
before_request(client_ip, who, handler) ==
    LET r == rate_limit_check(client_ip, clock)
    IN /\ request_history' = [request_history EXCEPT ![client_ip] = r.history]
       /\ IF r.ok THEN handler
          ELSE /\ resp' = Response("before_request", who, 429, "none", "none", "Too many requests", {})
               /\ UNCHANGED data

\* datetime.now().timestamp() moves on between two requests
Advance(k) ==
    /\ advances < MaxAdvances
    /\ clock' = clock + k
    /\ advances' = advances + 1
    /\ UNCHANGED <<data, today, ticks, request_history, resp, rest>>

(***************************************************************************)
(* Inputs of the requests.                                                 *)
(***************************************************************************)
Isbn13Good == <<"9", "7", "8", "0", "3", "0", "6", "4", "0", "6", "1", "5", "7">>
Isbn13Bad == <<"9", "7", "8", "0", "3", "0", "6", "4", "0", "6", "1", "5", "8">>
Isbn13Hyphen == <<"9", "7", "8", "-", "0", "3", "0", "6", "4", "0", "6", "1", "5", "7">>
Isbn10Good == <<"0", "3", "0", "6", "4", "0", "6", "1", "5", "2">>
Isbn10X == <<"0", "8", "0", "4", "4", "2", "9", "5", "7", "x">>
Isbn10Bad == <<"0", "3", "0", "6", "4", "0", "6", "1", "5", "3">>
IsbnShort == <<"1", "2", "3">>

EmailA == <<"a", "@", "x">>
EmailB == <<"b", "@", "x">>
EmailBad == <<"a", "x">>
Phone == <<"5", "5", "5", "-", "0", "1", "0", "0", "0", "0", "0", "1">>
PhoneShort == <<"5", "5", "5">>
Title == <<"T">>
Name == <<"N">>

LoanIsbns == {Isbn13Good, Isbn13Bad}
LoanEmails == {EmailA, EmailB}
EmailC == <<"c", "@", "x">>
TickSteps == {GraceDays, GraceDays + 1}

Librarian == "librarian"

Frozen == UNCHANGED <<today, ticks, request_history, clock, advances, rest>>

\* book forms: Isbn13Good in every quantity, Isbn13Bad in quantity 1
BookForms ==
    {<<Title, Title, Isbn13Good, QtyText(n)>> : n \in 1..MaxQty}
    \cup {<<Title, Title, Isbn13Bad, QtyText(1)>>}

MemberForms == {<<Name, email, Phone>> : email \in LoanEmails}

\* transaction forms: borrow and return dated day 0 or today, and the ill-formed ones
TxForms ==
    {<<isbn, email, type, DateText(d)>> :
        isbn \in LoanIsbns, email \in LoanEmails, type \in {"borrow", "return"}, d \in {0, today}}
    \cup {<<Isbn13Good, EmailA, "borrow", DateText(today + 1)>>,
          <<Isbn13Good, EmailA, "borrow", DateBad>>,
          <<Isbn13Good, EmailA, "borrow", DateEmpty>>,
          <<<<>>, EmailA, "borrow", DateText(today)>>,
          <<Isbn13Good, EmailA, "", DateText(today)>>,
          <<Isbn13Good, EmailA, "renew", DateText(today)>>,
          <<Isbn10Good, EmailA, "borrow", DateText(today)>>,
          <<Isbn13Good, EmailC, "borrow", DateText(today)>>}

AddBook == \E f \in BookForms : books_post(Librarian, f[1], f[2], f[3], f[4]) /\ Frozen
EditBook == \E f \in BookForms : edit_book(Librarian, f[3], f[1], f[2], f[3], f[4]) /\ Frozen
DeleteBook == \E key \in LoanIsbns : delete_book(Librarian, key) /\ Frozen
AddMember == \E f \in MemberForms : members_post(Librarian, f[1], f[2], f[3]) /\ Frozen
PostTransaction == \E f \in TxForms : transactions_post(Librarian, f[1], f[2], f[3], f[4]) /\ Frozen
DeleteTransaction == \E id \in 1..MaxId : delete_transaction(Librarian, id) /\ Frozen
AdvanceDay == \E k \in TickSteps : Tick(k)

(***************************************************************************)
(* Spec: the catalogue and the loans from an empty data directory, within  *)
(* one calendar day.                                                       *)
(***************************************************************************)
Next ==
    \/ AddBook
    \/ EditBook
    \/ DeleteBook
    \/ AddMember
    \/ PostTransaction
    \/ DeleteTransaction

Spec == Init /\ [][Next]_vars

(***************************************************************************)
(* SpecLoans: the borrow/return engine over a stocked library while the    *)
(* days pass.                                                              *)
(***************************************************************************)
BookRec(isbn, q) == [title |-> Title, author |-> Title, isbn |-> isbn, quantity |-> q]
MemberRec(email) == [name |-> Name, email |-> email, phone |-> Phone]

InitLoans ==
    /\ books_json = <<BookRec(Isbn13Good, MaxQty), BookRec(Isbn13Bad, 1)>>
    /\ members_json = <<MemberRec(EmailA), MemberRec(EmailB)>>
    /\ transactions_json = <<>>
    /\ reservations_json = <<>>
    /\ today = 0
    /\ ticks = 0
    /\ request_history = [ip \in {"ip1", "ip2"} |-> <<>>]
    /\ clock = 0
    /\ advances = 0
    /\ resp = NoResponse
    /\ InitRest

NextLoans ==
    \/ PostTransaction
    \/ DeleteTransaction
    \/ AdvanceDay

SpecLoans == InitLoans /\ [][NextLoans]_vars

(***************************************************************************)
(* SpecAccess: every route, asked by every kind of requester, from an      *)
(* empty data directory.                                                   *)
(***************************************************************************)
AccessRequesters == {Anonymous, "user", "staff", "librarian"}

AccBooksPost == \E who \in AccessRequesters :
    books_post(who, Title, Title, Isbn13Good, QtyText(1)) /\ Frozen
AccEditBook == \E who \in AccessRequesters :
    edit_book(who, Isbn13Good, Title, Title, Isbn13Good, QtyText(1)) /\ Frozen
AccDeleteBook == \E who \in AccessRequesters : delete_book(who, Isbn13Good) /\ Frozen
AccMembersPost == \E who \in AccessRequesters : members_post(who, Name, EmailA, Phone) /\ Frozen
AccEditMember == \E who \in AccessRequesters :
    edit_member(who, EmailA, Name, EmailA, Phone) /\ Frozen
AccDeleteMember == \E who \in AccessRequesters : delete_member(who, EmailA) /\ Frozen
AccTransactionsPost == \E who \in AccessRequesters, type \in {"borrow", "return"} :
    transactions_post(who, Isbn13Good, EmailA, type, DateText(today)) /\ Frozen
AccDeleteTransaction == \E who \in AccessRequesters, id \in 1..MaxId :
    delete_transaction(who, id) /\ Frozen
AccReservationsPost == \E who \in AccessRequesters :
    reservations_post(who, Isbn13Good, EmailA, DateText(today + 1), TRUE) /\ Frozen
AccEditReservation == \E who \in AccessRequesters :
    edit_reservation(who, 1, "completed", DateText(today + 1)) /\ Frozen
AccCancelReservation == \E who \in AccessRequesters : cancel_reservation(who, 1) /\ Frozen
AccPage == \E who \in AccessRequesters, route \in DOMAIN PageData : page_get(who, route) /\ Frozen
AccExport == \E who \in AccessRequesters, data_type \in {"books", "members", "users"},
                format \in {"csv", "pdf", "xml"} :
    export_data(who, data_type, format) /\ Frozen

NextAccess ==
    \/ AccBooksPost
    \/ AccEditBook
    \/ AccDeleteBook
    \/ AccMembersPost
    \/ AccEditMember
    \/ AccDeleteMember
    \/ AccTransactionsPost
    \/ AccDeleteTransaction
    \/ AccReservationsPost
    \/ AccEditReservation
    \/ AccCancelReservation
    \/ AccPage
    \/ AccExport

SpecAccess == Init /\ [][NextAccess]_vars

(***************************************************************************)
(* SpecRate: two clients send requests through before_request while the    *)
(* seconds pass; the request is the deletion of the one stored book.       *)
(***************************************************************************)
AdvanceSteps == {RateWindow - 1, RateWindow}

InitRate ==
    /\ books_json = <<BookRec(Isbn13Good, 1)>>
    /\ members_json = <<>>
    /\ transactions_json = <<>>
    /\ reservations_json = <<>>
    /\ today = 0
    /\ ticks = 0
    /\ request_history = [ip \in {"ip1", "ip2"} |-> <<>>]
    /\ clock = 0
    /\ advances = 0
    /\ resp = NoResponse
    /\ InitRest

\* ip1 sends any number of page requests
RequestPage ==
    /\ before_request("ip1", Librarian, page_get(Librarian, "books"))
    /\ UNCHANGED <<today, ticks, clock, advances, rest>>

\* either client asks for the deletion of the book; ip2 sends MaxOther requests at most
RequestDelete == \E ip \in {"ip1", "ip2"} :
    /\ ip = "ip2" => Len(request_history[ip]) < MaxOther
    /\ before_request(ip, Librarian, delete_book(Librarian, Isbn13Good))
    /\ UNCHANGED <<today, ticks, clock, advances, rest>>

AdvanceClock == \E k \in AdvanceSteps : Advance(k)

NextRate ==
    \/ RequestPage
    \/ RequestDelete
    \/ AdvanceClock

SpecRate == InitRate /\ [][NextRate]_vars

(***************************************************************************)
(* SpecBooks: the book forms in every shape, from an empty data directory. *)
(***************************************************************************)
IsbnForms == {Isbn13Good, Isbn13Bad, Isbn13Hyphen, Isbn10Good, Isbn10X, Isbn10Bad, IsbnShort, <<>>}
TitleForms == {Title, <<>>, <<" ">>}
QuantityForms == {QtyText(n) : n \in -1..MaxQty} \cup {QtyNaN}

\* every isbn in every quantity under a good title, and the ill titles once
AllBookForms ==
    {<<Title, Title, isbn, q>> : isbn \in IsbnForms, q \in QuantityForms}
    \cup {<<title, Title, Isbn13Good, QtyText(1)>> : title \in TitleForms}
    \cup {<<Title, title, Isbn13Good, QtyText(1)>> : title \in TitleForms}
EditKeys == {Isbn13Good, Isbn13Bad, Isbn10Good}

FormAddBook == \E f \in AllBookForms : books_post(Librarian, f[1], f[2], f[3], f[4]) /\ Frozen
FormEditBook == \E key \in EditKeys, f \in AllBookForms :
    edit_book(Librarian, key, f[1], f[2], f[3], f[4]) /\ Frozen
FormDeleteBook == \E key \in EditKeys : delete_book(Librarian, key) /\ Frozen

NextBooks ==
    \/ FormAddBook
    \/ FormEditBook
    \/ FormDeleteBook

SpecBooks == Init /\ [][NextBooks]_vars

(***************************************************************************)
(* SpecRes: reservations of one stored book by one stored member are       *)
(* created, edited and cancelled while the days pass.                      *)
(***************************************************************************)
ResIsbns == {Isbn13Good, IsbnShort}
ResEmails == {EmailA, EmailC}
DueForms == {DateText(today - 1), DateText(today), DateText(today + 1), DateBad, DateEmpty}
StatusForms == {"completed", "pending", ""}
EditDueForms == {DateText(today + 1), DateEmpty}

InitRes ==
    /\ books_json = <<BookRec(Isbn13Good, 1)>>
    /\ members_json = <<MemberRec(EmailA)>>
    /\ transactions_json = <<>>
    /\ reservations_json = <<>>
    /\ today = 0
    /\ ticks = 0
    /\ request_history = [ip \in {"ip1", "ip2"} |-> <<>>]
    /\ clock = 0
    /\ advances = 0
    /\ resp = NoResponse
    /\ InitRest

CreateReservation ==
    \E isbn \in ResIsbns, email \in ResEmails, due \in DueForms, later_today \in BOOLEAN :
        reservations_post(Librarian, isbn, email, due, later_today) /\ Frozen
EditReservation ==
    \E id \in 1..(MaxRes + 1), status \in StatusForms, due \in EditDueForms :
        edit_reservation(Librarian, id, status, due) /\ Frozen
CancelReservation ==
    \E id \in 1..(MaxRes + 1) : cancel_reservation(Librarian, id) /\ Frozen

NextRes ==
    \/ CreateReservation
    \/ EditReservation
    \/ CancelReservation
    \/ AdvanceDay

SpecRes == InitRes /\ [][NextRes]_vars

(***************************************************************************)
(* SpecResRace: the reservation requests served by two threads.  The lock  *)
(* of load_data and of save_data lasts for the one call, so a request is   *)
(* two steps: the load with the changes made in memory, and the save with  *)
(* the response.                                                           *)
(***************************************************************************)
InFlight(route, records, flash) ==
    [busy |-> TRUE, route |-> route, records |-> records, cat |-> "success", flash |-> flash]

FrozenRace ==
    UNCHANGED <<today, ticks, request_history, clock, advances, users_json, disk, raw_file, ret,
                locked_file, issued>>

\* reservations(): from the start to the list that will be saved
reservations_load(w, isbn_in, email_in, due_date, later_today) ==
    LET books == load_data(books_json)
        members == load_data(members_json)
        book_isbn == sanitize_input(isbn_in)
        member_email == sanitize_input(email_in)
        b == FirstIdx(books, "isbn", book_isbn)
        m == FirstIdx(members, "email", member_email)
    IN
    /\ ~inflight[w].busy
    /\ UNCHANGED data
    /\ IF b = 0 \/ m = 0
       THEN /\ resp' = Response("reservations", Librarian, 302, "reservations", "error",
                                "Invalid book or member selected.", {})
            /\ UNCHANGED inflight
       ELSE LET reservation_data ==
                    [book_isbn |-> book_isbn, book_title |-> books[b].title,
                     member_email |-> member_email, member_name |-> members[m].name,
                     status |-> "active", reserved_date |-> today, due_date |-> due_date]
                reservations == load_data(reservations_json)
            IN IF validate_reservation(reservation_data, today, later_today)
               THEN /\ Len(reservations) < MaxRes
                    /\ inflight' = [inflight EXCEPT ![w] =
                           InFlight("reservations",
                                    Append(reservations,
                                           dict_update(reservation_data,
                                                       [id |-> Len(reservations) + 1])),
                                    "Reservation added successfully!")]
                    /\ UNCHANGED resp
               ELSE /\ UNCHANGED inflight
                    /\ resp' = Response("reservations", Librarian, 200, "reservations", "error",
                                        "Please check the due date and ensure all fields are filled correctly.",
                                        {"reservations", "books", "members"})

\* edit_reservation: from the start to the list that will be saved
edit_reservation_load(w, reservation_id, status, due_date) ==
    LET reservations == load_data(reservations_json)
        i == FirstIdx(reservations, "id", reservation_id)
    IN
    /\ ~inflight[w].busy
    /\ inflight' = [inflight EXCEPT ![w] =
           InFlight("edit_reservation",
                    IF i = 0 THEN reservations
                    ELSE [reservations EXCEPT ![i].status = status, ![i].due_date = due_date],
                    "Reservation updated successfully!")]
    /\ UNCHANGED <<data, resp>>

\* cancel_reservation: from the start to the list that will be saved
cancel_reservation_load(w, reservation_id) ==
    LET reservations == load_data(reservations_json)
        i == FirstIdx(reservations, "id", reservation_id)
    IN
    /\ ~inflight[w].busy
    /\ inflight' = [inflight EXCEPT ![w] =
           InFlight("cancel_reservation",
                    IF i = 0 THEN reservations
                    ELSE [reservations EXCEPT ![i].status = "cancelled"],
                    "Reservation cancelled successfully!")]
    /\ UNCHANGED <<data, resp>>

\* save_data('reservations.json', reservations), the flash and the response
reservations_save(w) ==
    /\ inflight[w].busy
    /\ reservations_json' = save_data(reservations_json, inflight[w].records)
    /\ resp' = Response(inflight[w].route, Librarian,
                        IF inflight[w].route = "reservations" THEN 200 ELSE 302,
                        "reservations", inflight[w].cat, inflight[w].flash,
                        IF inflight[w].route = "reservations"
                        THEN {"reservations", "books", "members"} ELSE {})
    /\ inflight' = [inflight EXCEPT ![w] = Idle]
    /\ UNCHANGED <<books_json, members_json, transactions_json>>

RaceCreate == \E w \in Workers, d \in {today - 1, today + 1} :
    reservations_load(w, Isbn13Good, EmailA, DateText(d), TRUE) /\ FrozenRace
RaceEdit == \E w \in Workers, id \in 1..MaxRes, status \in {"completed", "pending"} :
    edit_reservation_load(w, id, status, DateText(today + 1)) /\ FrozenRace
RaceCancel == \E w \in Workers, id \in 1..MaxRes :
    cancel_reservation_load(w, id) /\ FrozenRace
RaceSave == \E w \in Workers : reservations_save(w) /\ FrozenRace

NextResRace ==
    \/ RaceCreate
    \/ RaceEdit
    \/ RaceCancel
    \/ RaceSave

SpecResRace == InitRes /\ [][NextResRace]_vars

(***************************************************************************)
(* SpecUsers: the calls on the user store after init_user_storage.         *)
(***************************************************************************)
UserNames == {"admin", "bob"}
UserEmails == {AdminEmail, "bob@library.com", "eve@library.com"}
UserIds == 1..(MaxUsers + 1)

RegisterUser == \E username \in UserNames, email \in UserEmails, role \in {"user", "librarian"} :
    register_user(username, email, "secret", role) /\ FrozenAuth
UpdateUser == \E user_id \in UserIds, username \in UserNames, email \in UserEmails,
                 password \in {"", "changed"} :
    update_user(user_id, username, email, "admin", password) /\ FrozenAuth
DeleteUser == \E user_id \in UserIds : delete_user(user_id) /\ FrozenAuth

NextUsers ==
    \/ RegisterUser
    \/ UpdateUser
    \/ DeleteUser

SpecUsers == Init /\ [][NextUsers]_vars

(***************************************************************************)
(* SpecStore: save_data and load_data called on the files, while the files *)
(* are damaged or removed and the disk fails from outside.                 *)
(***************************************************************************)
BookRow == <<<<"isbn", PyStr(<<"9", "7", "8">>)>>, <<"quantity", PyInt(1)>>>>
LoanRow == <<<<"id", PyInt(1)>>, <<"borrow_date", PyStr(<<"1">>)>>, <<"return_date", PyNone>>>>
ReservationRow == <<<<"id", PyStr(<<"1">>)>>, <<"status", PyStr(<<>>)>>, <<"due_date", PyNone>>>>
StoreData == {<<>>, <<BookRow>>, <<LoanRow, BookRow>>, <<ReservationRow>>}

StoreSave == \E name \in StoreNames, records \in StoreData :
    save_data_call(name, records) /\ FrozenStore
StoreLoad == \E name \in StoreNames : load_data_call(name) /\ FrozenStore
StoreDamage == \E path \in StorePaths, file \in {NoFile, NotJson, NotText} :
    /\ raw_file' = [raw_file EXCEPT ![path] = file]
    /\ ret' = [NoCall EXCEPT !.op = "other writer"]
    /\ UNCHANGED disk
    /\ FrozenStore
StoreDisk == \E d \in {"ok", "readonly", "full"} :
    /\ disk' = d
    /\ UNCHANGED <<raw_file, ret>>
    /\ FrozenStore

NextStore ==
    \/ StoreSave
    \/ StoreLoad
    \/ StoreDamage
    \/ StoreDisk

SpecStore == Init /\ [][NextStore]_vars

(***************************************************************************)
(* SpecDisk: every writing request on a small library while the disk at    *)
(* times refuses the write (open fails) or fills up (json.dump fails after *)
(* the file was truncated).  save_data then logs the error and returns     *)
(* False.                                                                  *)
(***************************************************************************)
DiskBook == <<Title, Title, Isbn13Good, QtyText(1)>>
DiskMember == <<Name, EmailA, Phone>>

DiskAddBook == books_post(Librarian, DiskBook[1], DiskBook[2], DiskBook[3], DiskBook[4]) /\ Frozen
DiskEditBook ==
    edit_book(Librarian, Isbn13Good, DiskBook[1], DiskBook[2], DiskBook[3], DiskBook[4]) /\ Frozen
DiskDeleteBook == delete_book(Librarian, Isbn13Good) /\ Frozen
DiskAddMember == members_post(Librarian, DiskMember[1], DiskMember[2], DiskMember[3]) /\ Frozen
DiskEditMember ==
    edit_member(Librarian, EmailA, DiskMember[1], DiskMember[2], DiskMember[3]) /\ Frozen
DiskDeleteMember == delete_member(Librarian, EmailA) /\ Frozen
DiskPostTransaction == \E type \in {"borrow", "return"} :
    transactions_post(Librarian, Isbn13Good, EmailA, type, DateText(today)) /\ Frozen
DiskDeleteTransaction == \E id \in 1..MaxTx : delete_transaction(Librarian, id) /\ Frozen
DiskCreateReservation ==
    reservations_post(Librarian, Isbn13Good, EmailA, DateText(today + 1), FALSE) /\ Frozen
DiskEditReservation == \E id \in 1..MaxRes :
    edit_reservation(Librarian, id, "completed", DateText(today + 1)) /\ Frozen
DiskCancelReservation == \E id \in 1..MaxRes : cancel_reservation(Librarian, id) /\ Frozen

\* the state of the disk changes between two requests
DiskFault == \E d \in {"ok", "readonly", "full"} :
    /\ d # disk
    /\ disk' = d
    /\ UNCHANGED <<data, today, ticks, request_history, clock, advances, resp,
                   users_json, inflight, raw_file, ret, locked_file, issued>>

\* a writing request is served
DiskRequest ==
    \/ DiskAddBook
    \/ DiskEditBook
    \/ DiskDeleteBook
    \/ DiskAddMember
    \/ DiskEditMember
    \/ DiskDeleteMember
    \/ DiskPostTransaction
    \/ DiskDeleteTransaction
    \/ DiskCreateReservation
    \/ DiskEditReservation
    \/ DiskCancelReservation

NextDisk ==
    \/ DiskAddBook
    \/ DiskEditBook
    \/ DiskDeleteBook
    \/ DiskAddMember
    \/ DiskEditMember
    \/ DiskDeleteMember
    \/ DiskPostTransaction
    \/ DiskDeleteTransaction
    \/ DiskCreateReservation
    \/ DiskEditReservation
    \/ DiskCancelReservation
    \/ DiskFault

SpecDisk == InitRes /\ [][NextDisk]_vars

(***************************************************************************)
(* The overdue report.                                                     *)
(***************************************************************************)
\* the tier of a loan that is days_overdue days past the standard period
overdue_status_from_14(days_overdue) ==
    IF days_overdue > 30 THEN "Severely Overdue"
    ELSE IF days_overdue >= 14 THEN "Moderately Overdue"
    ELSE "Slightly Overdue"

overdue_status(days_overdue) ==
    IF days_overdue > 30 THEN "Severely Overdue"
    ELSE IF days_overdue > 14 THEN "Moderately Overdue"
    ELSE "Slightly Overdue"

\* the transactions a date_from / date_to query argument keeps: an empty
\* argument and a malformed one (ValueError, flashed) keep them all
RECURSIVE date_filter(_, _, _)
date_filter(transactions, date, from) ==
    IF date.k # "iso" \/ transactions = <<>> THEN transactions
    ELSE (IF (from /\ Head(transactions).borrow_date >= date.d)
             \/ (~from /\ Head(transactions).borrow_date <= date.d)
          THEN <<Head(transactions)>> ELSE <<>>)
         \o date_filter(Tail(transactions), date, from)

\* the rows of the report over the open loans, in stored order
RECURSIVE overdue_rows(_, _)
overdue_rows(transactions, current_date) ==
    IF transactions = <<>> THEN <<>>
    ELSE LET t == Head(transactions)
             days_overdue == (current_date - t.borrow_date) - StandardPeriod
         IN (IF t.return_date = NoDate /\ days_overdue > 0
             THEN <<[book_title |-> t.book_title,
                     book_isbn |-> t.book_isbn,
                     member_name |-> t.member_name,
                     borrow_date |-> t.borrow_date,
                     days_overdue |-> days_overdue,
                     status |-> overdue_status(days_overdue)]>>
             ELSE <<>>)
            \o overdue_rows(Tail(transactions), current_date)

\* generate_report_data('overdue', date_from, date_to)
generate_report_data(date_from, date_to) ==
    /\ ret' = [op |-> "generate_report_data",
               name |-> <<"overdue">>,
               arg |-> <<date_from, date_to>>,
               value |-> overdue_rows(
                             date_filter(date_filter(load_data(transactions_json),
                                                     date_from, TRUE),
                                         date_to, FALSE),
                             today),
               ok |-> TRUE,
               raised |-> "none"]
    /\ UNCHANGED <<data, today, ticks, request_history, clock, advances, resp,
                   users_json, disk, inflight, raw_file, locked_file, issued>>

(***************************************************************************)
(* SpecReport: loans of a stocked library, a jump of the calendar, and the *)
(* overdue report.                                                         *)
(***************************************************************************)
\* loan ages around the tiers: 14 | 15 .. 28 | 29 .. 44 | 45, and the 19 days
\* from 2024-01-01 to 2024-01-20
ReportSteps == {1, StandardPeriod, StandardPeriod + 1, 19, 2 * StandardPeriod, 2 * StandardPeriod + 1,
                StandardPeriod + 30, StandardPeriod + 31}
\* the date_from and date_to of a report request
ReportDates == {<<DateEmpty, DateEmpty>>, <<DateText(1), DateEmpty>>,
                <<DateEmpty, DateText(0)>>, <<DateBad, DateBad>>}

ReportTransaction ==
    \E email \in LoanEmails, type \in {"borrow", "return"}, d \in {0, today} :
        transactions_post(Librarian, Isbn13Good, email, type, DateText(d)) /\ Frozen
ReportJump == \E k \in ReportSteps : Tick(k)
ReportOverdue == \E dates \in ReportDates : generate_report_data(dates[1], dates[2])

NextReport ==
    \/ ReportTransaction
    \/ ReportJump
    \/ ReportOverdue

SpecReport == InitLoans /\ [][NextReport]_vars

(***************************************************************************)
(* SpecLock: load_data and save_data of two threads on one file, system    *)
(* call by system call.  The text of the file is a sequence of tokens: the *)
(* brackets of the JSON array and one token for each record.  save_data    *)
(* opens the file for writing, which empties it, then takes the exclusive  *)
(* lock, serialises into the buffer of its file object, releases the lock  *)
(* and leaves the with block, which writes the buffer at the position of   *)
(* the file object and closes it.  load_data opens the file for reading,   *)
(* takes the shared lock, parses the text, releases the lock.  A           *)
(* collection smaller than the buffer of a file object is modelled.        *)
(***************************************************************************)
\* json.dump of a list of records
json_text(records) == <<"[">> \o records \o <<"]">>

\* json.load of a text: the list, or JSONDecodeError
json_valid(text) ==
    /\ Len(text) >= 2
    /\ text[1] = "["
    /\ text[Len(text)] = "]"
    /\ \A i \in 2..(Len(text) - 1) : text[i] \notin {"[", "]"}
json_records(text) == SubSeq(text, 2, Len(text) - 1)

\* write(2) of a buffer at position 0 of a file
write_at_0(text, buffer) == buffer \o SubSeq(text, Len(buffer) + 1, Len(text))

\* flock(2): the shared lock waits for the exclusive one, the exclusive lock for
\* every other lock
flock_granted(w, op) ==
    \A v \in Workers \ {w} :
        IF op = "sh" THEN calls[v].lock # "ex" ELSE calls[v].lock = "none"

FrozenLock ==
    UNCHANGED <<data, today, ticks, request_history, clock, advances, resp,
                users_json, disk, inflight, raw_file, issued>>

LockRecords == {<<"a">>, <<"b", "c">>}
LockInitial == <<"a">>

\* save_data: open(filepath, 'w')
save_open(w, records) ==
    /\ calls[w].pc = "idle"
    /\ file_text' = <<>>
    /\ calls' = [calls EXCEPT ![w] = [pc |-> "save opened", lock |-> "none",
                                      buffer |-> <<>>, records |-> records]]
    /\ UNCHANGED ret
    /\ FrozenLock
\* save_data: fcntl.flock(f.fileno(), fcntl.LOCK_EX)
save_lock(w) ==
    /\ calls[w].pc = "save opened"
    /\ flock_granted(w, "ex")
    /\ calls' = [calls EXCEPT ![w].pc = "save locked", ![w].lock = "ex"]
    /\ UNCHANGED <<file_text, ret>>
    /\ FrozenLock
\* save_data: json.dump(data, f, indent=4)
save_dump(w) ==
    /\ calls[w].pc = "save locked"
    /\ calls' = [calls EXCEPT ![w].pc = "save dumped",
                              ![w].buffer = json_text(calls[w].records)]
    /\ UNCHANGED <<file_text, ret>>
    /\ FrozenLock
\* save_data: finally fcntl.flock(f.fileno(), fcntl.LOCK_UN)
save_unlock(w) ==
    /\ calls[w].pc = "save dumped"
    /\ calls' = [calls EXCEPT ![w].pc = "save unlocked", ![w].lock = "none"]
    /\ UNCHANGED <<file_text, ret>>
    /\ FrozenLock
\* save_data: the end of the with block, and return True
save_close(w) ==
    /\ calls[w].pc = "save unlocked"
    /\ file_text' = write_at_0(file_text, calls[w].buffer)
    /\ calls' = [calls EXCEPT ![w] = NoHandle]
    /\ ret' = [op |-> "save_data", name |-> <<w>>, arg |-> calls[w].records,
               value |-> <<>>, ok |-> TRUE, raised |-> "none"]
    /\ FrozenLock

\* load_data: os.path.exists and open(filepath, 'r')
load_open(w) ==
    /\ calls[w].pc = "idle"
    /\ calls' = [calls EXCEPT ![w] = [NoHandle EXCEPT !.pc = "load opened"]]
    /\ UNCHANGED <<file_text, ret>>
    /\ FrozenLock
\* load_data: fcntl.flock(f.fileno(), fcntl.LOCK_SH)
load_lock(w) ==
    /\ calls[w].pc = "load opened"
    /\ flock_granted(w, "sh")
    /\ calls' = [calls EXCEPT ![w].pc = "load locked", ![w].lock = "sh"]
    /\ UNCHANGED <<file_text, ret>>
    /\ FrozenLock
\* load_data: json.load(f), [] on JSONDecodeError
load_read(w) ==
    /\ calls[w].pc = "load locked"
    /\ calls' = [calls EXCEPT ![w].pc = "load read",
                              ![w].records = IF json_valid(file_text)
                                             THEN json_records(file_text) ELSE <<>>]
    /\ UNCHANGED <<file_text, ret>>
    /\ FrozenLock
\* load_data: finally fcntl.flock(f.fileno(), fcntl.LOCK_UN), and return
load_return(w) ==
    /\ calls[w].pc = "load read"
    /\ calls' = [calls EXCEPT ![w] = NoHandle]
    /\ ret' = [op |-> "load_data", name |-> <<w>>, arg |-> <<>>,
               value |-> calls[w].records, ok |-> TRUE, raised |-> "none"]
    /\ UNCHANGED file_text
    /\ FrozenLock

InitLock ==
    /\ books_json = <<>>
    /\ members_json = <<>>
    /\ transactions_json = <<>>
    /\ reservations_json = <<>>
    /\ today = 0
    /\ ticks = 0
    /\ request_history = [ip \in {"ip1", "ip2"} |-> <<>>]
    /\ clock = 0
    /\ advances = 0
    /\ resp = NoResponse
    /\ users_json = SeedUsers
    /\ disk = "ok"
    /\ inflight = [w \in Workers |-> Idle]
    /\ raw_file = [path \in StorePaths |-> NoFile]
    /\ ret = NoCall
    /\ file_text = json_text(LockInitial)
    /\ calls = [w \in Workers |-> NoHandle]
    /\ issued = {}

SaveOpen == \E w \in Workers, records \in LockRecords : save_open(w, records)
SaveLock == \E w \in Workers : save_lock(w)
SaveDump == \E w \in Workers : save_dump(w)
SaveUnlock == \E w \in Workers : save_unlock(w)
SaveClose == \E w \in Workers : save_close(w)
LoadOpen == \E w \in Workers : load_open(w)
LoadLock == \E w \in Workers : load_lock(w)
LoadRead == \E w \in Workers : load_read(w)
LoadReturn == \E w \in Workers : load_return(w)

NextLock ==
    \/ SaveOpen
    \/ SaveLock
    \/ SaveDump
    \/ SaveUnlock
    \/ SaveClose
    \/ LoadOpen
    \/ LoadLock
    \/ LoadRead
    \/ LoadReturn

SpecLock == InitLock /\ [][NextLock]_vars

(***************************************************************************)
(* SpecTxRace: the transaction requests served by two threads.  As for the *)
(* reservations a request is two steps: the load with the checks and the   *)
(* changes made in memory, and the save with the response.                 *)
(***************************************************************************)
Rejected(flash) == [save |-> FALSE, records |-> <<>>, cat |-> "error", flash |-> flash]
Saving(records, cat, flash) == [save |-> TRUE, records |-> records, cat |-> cat, flash |-> flash]

\* transactions() (POST) up to its save_data: the error it flashes, or the list
\* it will save and the message it has flashed
transactions_outcome(isbn_in, email_in, type, date) ==
    LET book_isbn == sanitize_input(isbn_in)
        member_email == sanitize_input(email_in)
        books == load_data(books_json)
        members == load_data(members_json)
        transactions == load_data(transactions_json)
        b == FirstIdx(books, "isbn", book_isbn)
        m == FirstIdx(members, "email", member_email)
        r == borrow_record(transactions, book_isbn, member_email)
    IN
    IF book_isbn = <<>> \/ member_email = <<>> \/ type = "" \/ date.k = "empty"
    THEN Rejected("All fields are required.")
    ELSE IF date.k = "bad" THEN Rejected("Invalid date format.")
    ELSE IF date.d > today THEN Rejected("Transaction date cannot be in the future.")
    ELSE IF b = 0 THEN Rejected("Book not found.")
    ELSE IF m = 0 THEN Rejected("Member not found.")
    ELSE IF type = "borrow"
    THEN IF not_available(transactions, books[b])
         THEN Rejected("This book is not available for borrowing.")
         ELSE IF overdue_books(transactions, member_email, today)
         THEN Rejected("Member has overdue books. Please return them first.")
         ELSE Saving(Append(transactions,
                            [id |-> next_id(transactions),
                             book_isbn |-> book_isbn,
                             book_title |-> books[b].title,
                             member_email |-> member_email,
                             member_name |-> members[m].name,
                             borrow_date |-> date.d,
                             return_date |-> NoDate]),
                     "success", "Book borrowed successfully!")
    ELSE IF type = "return"
    THEN IF r = 0
         THEN Rejected("No active borrow record found for this book and member.")
         ELSE IF return_before_borrow(date.d, transactions[r])
         THEN Rejected("Return date cannot be before the borrow date.")
         ELSE Saving([transactions EXCEPT ![r].return_date = date.d],
                     "success", "Book returned successfully!")
    ELSE Saving(transactions, "none", "")

\* delete_transaction up to its save_data
delete_transaction_outcome(id) ==
    LET transactions == load_data(transactions_json)
        i == FirstIdx(transactions, "id", id)
    IN
    IF i = 0 THEN Rejected("Transaction not found!")
    ELSE IF ~deletable(transactions[i])
    THEN Rejected("Cannot delete an active borrow transaction. Return the book first.")
    ELSE Saving(Filter(transactions, "id", id), "success", "Transaction deleted successfully!")

\* a request from its start to its save_data, or to the redirect of its error
transactions_load(w, route, outcome) ==
    /\ ~inflight[w].busy
    /\ UNCHANGED data
    /\ IF outcome.save
       THEN /\ Len(outcome.records) <= MaxTx
            /\ \A i \in 1..Len(outcome.records) : outcome.records[i].id <= MaxId
            /\ inflight' = [inflight EXCEPT ![w] =
                   [busy |-> TRUE, route |-> route, records |-> outcome.records,
                    cat |-> outcome.cat, flash |-> outcome.flash]]
            /\ UNCHANGED resp
       ELSE /\ resp' = Response(route, Librarian, 302, "transactions", "error",
                                outcome.flash, {})
            /\ UNCHANGED inflight

\* save_data('transactions.json', transactions) and the redirect
transactions_save(w) ==
    /\ inflight[w].busy
    /\ transactions_json' = save_data(transactions_json, inflight[w].records)
    /\ resp' = Response(inflight[w].route, Librarian, 302, "transactions",
                        inflight[w].cat, inflight[w].flash, {})
    /\ inflight' = [inflight EXCEPT ![w] = Idle]
    /\ UNCHANGED <<books_json, members_json, reservations_json>>

TxRacePost == \E w \in Workers, email \in LoanEmails, type \in {"borrow", "return"} :
    /\ transactions_load(w, "transactions",
                         transactions_outcome(Isbn13Good, email, type, DateText(today)))
    /\ FrozenRace
TxRaceDelete == \E w \in Workers, id \in 1..MaxId :
    transactions_load(w, "delete_transaction", delete_transaction_outcome(id)) /\ FrozenRace
TxRaceSave == \E w \in Workers : transactions_save(w) /\ FrozenRace

NextTxRace ==
    \/ TxRacePost
    \/ TxRaceDelete
    \/ TxRaceSave

SpecTxRace == InitLoans /\ [][NextTxRace]_vars

(***************************************************************************)
(* SpecRateLive: one client that sends page requests for as long as it     *)
(* likes while the clock runs through one window.  The clock does move on  *)
(* (until the end of the window that is modelled), and a request that      *)
(* would change the client's history or its response is sent at some time. *)
(***************************************************************************)
\* the clock is followed for one window: it is read at second 0, at second
\* 59 and at second 60
MaxClock == RateWindow
LiveTimes == {RateWindow - 1, MaxClock}

\* datetime.now().timestamp() moves on between two requests
LiveAdvance == \E t \in LiveTimes :
    /\ t > clock
    /\ clock' = t
    /\ UNCHANGED <<data, today, ticks, request_history, advances, resp, rest>>

NextRateLive ==
    \/ RequestPage
    \/ LiveAdvance

SpecRateLive ==
    /\ InitRate
    /\ [][NextRateLive]_vars
    /\ WF_vars(RequestPage)
    /\ WF_vars(LiveAdvance)

(***************************************************************************)
(* Vocabulary of the properties, stated on the stored collections.         *)
(***************************************************************************)
ActiveLoans(txs, isbn) ==
    {i \in 1..Len(txs) : txs[i].book_isbn = isbn /\ txs[i].return_date = NoDate}

\* the book a transaction request for the isbn is decided on: the first stored one
StockOf(bks, isbn) ==
    LET hits == {i \in 1..Len(bks) : bks[i].isbn = isbn}
    IN IF hits = {} THEN 0
       ELSE bks[CHOOSE i \in hits : \A j \in hits : i <= j].quantity

HasOverdueLoan(txs, email, day) ==
    \E i \in 1..Len(txs) :
        /\ txs[i].member_email = email
        /\ txs[i].return_date = NoDate
        /\ day - txs[i].borrow_date >= GraceDays + 1

IsMember(email) == \E i \in 1..Len(members_json) : members_json[i].email = email
IsBook(isbn) == \E i \in 1..Len(books_json) : books_json[i].isbn = isbn

Borrowed == "Book borrowed successfully!"
Returned == "Book returned successfully!"
NotAvailable == "This book is not available for borrowing."
HasOverdue == "Member has overdue books. Please return them first."
NoActiveLoan == "No active borrow record found for this book and member."
ReturnTooEarly == "Return date cannot be before the borrow date."
ActiveNotDeletable == "Cannot delete an active borrow transaction. Return the book first."

\* the step appends one transaction, the last of the new collection
Appended == /\ Len(transactions_json') = Len(transactions_json) + 1
            /\ SubSeq(transactions_json', 1, Len(transactions_json)) = transactions_json

(***************************************************************************)
(* C1.  As claimed: in every reachable state every book has at most        *)
(* quantity active loans (transactions of its isbn with no return_date).   *)
(***************************************************************************)
C1_ActiveLoansWithinQuantity ==
    \A i \in 1..Len(books_json) :
        Cardinality(ActiveLoans(transactions_json, books_json[i].isbn)) <= books_json[i].quantity

(***************************************************************************)
(* C1, amended.  The bound is established by borrow only: in the state     *)
(* right after an accepted borrow the borrowed isbn has at most as many    *)
(* active loans as the quantity of its book.                               *)
(***************************************************************************)
C1_BorrowWithinQuantity ==
    [][(Appended /\ resp'.flash = Borrowed) =>
         LET t == transactions_json'[Len(transactions_json')]
         IN /\ t.return_date = NoDate
            /\ Cardinality(ActiveLoans(transactions_json', t.book_isbn))
                  <= StockOf(books_json', t.book_isbn)]_vars

\* a borrow was accepted and filled the book's quantity of 2
C1_Witness ==
    /\ resp.flash = Borrowed
    /\ \E i \in 1..Len(books_json) :
          /\ books_json[i].quantity = 2
          /\ Cardinality(ActiveLoans(transactions_json, books_json[i].isbn)) = 2

(***************************************************************************)
(* C2.  A borrow request for a stored book by a stored member, dated today *)
(* or earlier, is accepted (one transaction with no return_date is added)  *)
(* when the book has fewer active loans than its quantity and the member   *)
(* has no overdue loan, and is rejected with the availability error, with  *)
(* no transaction added, when the active loans have reached the quantity.  *)
(* Stated contrapositively: a step that does not show the outcome is not   *)
(* a step of that request.                                                 *)
(***************************************************************************)
BorrowAccepted(isbn, email) ==
    /\ resp'.flash = Borrowed
    /\ Appended
    /\ transactions_json'[Len(transactions_json')].book_isbn = isbn
    /\ transactions_json'[Len(transactions_json')].member_email = email
    /\ transactions_json'[Len(transactions_json')].return_date = NoDate
    /\ Cardinality(ActiveLoans(transactions_json', isbn)) =
          Cardinality(ActiveLoans(transactions_json, isbn)) + 1

BorrowRefused == resp'.flash = NotAvailable /\ transactions_json' = transactions_json

C2_BorrowUntilQuantity ==
    [][\A isbn \in LoanIsbns, email \in LoanEmails, d \in {0, today} :
         LET n == Cardinality(ActiveLoans(transactions_json, isbn))
             q == StockOf(books_json, isbn)
             expected == IF n >= q THEN BorrowRefused
                         ELSE IF ~HasOverdueLoan(transactions_json, email, today)
                         THEN BorrowAccepted(isbn, email)
                         ELSE TRUE
         IN (IsBook(isbn) /\ IsMember(email) /\ today' = today /\ ~expected) =>
               ~transactions_post(Librarian, isbn, email, "borrow", DateText(d))]_vars

\* the third borrow of a book of quantity 2 was refused
C2_Witness ==
    /\ resp.flash = NotAvailable
    /\ StockOf(books_json, Isbn13Good) = 2
    /\ Cardinality(ActiveLoans(transactions_json, Isbn13Good)) = 2

(***************************************************************************)
(* C3.  A borrow request of a member who has an active loan, of any book,  *)
(* borrowed more than 14 days before today is rejected and the             *)
(* transactions are unchanged; the overdue rejection is given only then,   *)
(* so a loan 14 days old or younger, or a returned one, blocks no borrow.  *)
(***************************************************************************)
C3_OverdueBlocksBorrow ==
    [][\A isbn \in LoanIsbns, email \in LoanEmails, d \in {0, today} :
         LET late == HasOverdueLoan(transactions_json, email, today)
             refused == resp'.cat = "error" /\ transactions_json' = transactions_json
         IN (/\ IsBook(isbn) /\ IsMember(email) /\ today' = today
             /\ \/ late /\ ~refused
                \/ ~late /\ resp'.flash = HasOverdue) =>
               ~transactions_post(Librarian, isbn, email, "borrow", DateText(d))]_vars

\* a member with a loan of the other book, 15 days old, was refused
C3_Witness ==
    /\ resp.flash = HasOverdue
    /\ \E i \in 1..Len(transactions_json) :
          /\ transactions_json[i].return_date = NoDate
          /\ today - transactions_json[i].borrow_date = GraceDays + 1
          /\ transactions_json[i].book_isbn = Isbn13Bad
          /\ Cardinality(ActiveLoans(transactions_json, Isbn13Good)) = 0
          /\ StockOf(books_json, Isbn13Good) > 0

(***************************************************************************)
(* C4.  A return is accepted only when an active loan of the same isbn and *)
(* member exists and the return date is not before the borrow date of the  *)
(* first such loan; every stored return_date is on or after its            *)
(* borrow_date.                                                            *)
(***************************************************************************)
C4_ReturnDatesOrdered ==
    \A i \in 1..Len(transactions_json) :
        transactions_json[i].return_date # NoDate =>
            transactions_json[i].return_date >= transactions_json[i].borrow_date

C4_ReturnNeedsActiveLoan ==
    /\ []C4_ReturnDatesOrdered
    /\ [][\A isbn \in LoanIsbns, email \in LoanEmails, d \in {0, today} :
            (/\ resp'.flash = Returned /\ today' = today
             /\ transactions_post(Librarian, isbn, email, "return", DateText(d))) =>
              LET open == {i \in ActiveLoans(transactions_json, isbn) :
                              transactions_json[i].member_email = email}
              IN /\ open # {}
                 /\ \A i \in open :
                       (\A j \in open : i <= j) =>
                          /\ d >= transactions_json[i].borrow_date
                          /\ transactions_json'[i].return_date = d]_vars

\* a return dated after the borrow was accepted
C4_Witness ==
    /\ resp.flash = Returned
    /\ \E i \in 1..Len(transactions_json) :
          /\ transactions_json[i].return_date # NoDate
          /\ transactions_json[i].return_date > transactions_json[i].borrow_date

(***************************************************************************)
(* C5.  An active loan never leaves the collection: every step keeps each  *)
(* transaction that has no return_date (it may gain one), a step that      *)
(* removes a transaction removes a returned one, and a delete request for  *)
(* an active loan is rejected.                                             *)
(***************************************************************************)
C5_ActiveLoanNotDeleted ==
    [][/\ \A i \in 1..Len(transactions_json) :
            transactions_json[i].return_date = NoDate =>
               \E j \in 1..Len(transactions_json') :
                  /\ transactions_json'[j].id = transactions_json[i].id
                  /\ transactions_json'[j].book_isbn = transactions_json[i].book_isbn
                  /\ transactions_json'[j].member_email = transactions_json[i].member_email
                  /\ transactions_json'[j].borrow_date = transactions_json[i].borrow_date
       /\ \A id \in 1..MaxId :
            (/\ resp'.route = "delete_transaction" /\ today' = today
             /\ \E i \in 1..Len(transactions_json) :
                   transactions_json[i].id = id /\ transactions_json[i].return_date = NoDate
             /\ delete_transaction(Librarian, id)) =>
              /\ resp'.flash = ActiveNotDeletable
              /\ transactions_json' = transactions_json]_vars

\* a delete of an active loan was refused and the loan is still stored
C5_Witness ==
    /\ resp.flash = ActiveNotDeletable
    /\ \E i \in 1..Len(transactions_json) : transactions_json[i].return_date = NoDate

(***************************************************************************)
(* C6.  A transaction request that gives one of the causes of rejection (a *)
(* missing field, a future or malformed date, an unknown book or member,   *)
(* an unavailable book, a member with overdue loans, a return with no      *)
(* matching active loan or dated before the borrow, a delete of an unknown *)
(* or active transaction) is answered with an error, and every transaction *)
(* request answered with an error leaves every collection as it was.       *)
(***************************************************************************)
FirstOpenLoan(isbn, email) ==
    LET open == {i \in ActiveLoans(transactions_json, isbn) :
                    transactions_json[i].member_email = email}
    IN IF open = {} THEN 0 ELSE CHOOSE i \in open : \A j \in open : i <= j

MustReject(f) ==
    \/ f[1] = <<>> \/ f[2] = <<>> \/ f[3] = ""
    \/ f[4].k \in {"empty", "bad"}
    \/ f[4].d > today
    \/ ~IsBook(f[1])
    \/ ~IsMember(f[2])
    \/ /\ f[3] = "borrow"
       /\ \/ Cardinality(ActiveLoans(transactions_json, f[1])) >= StockOf(books_json, f[1])
          \/ HasOverdueLoan(transactions_json, f[2], today)
    \/ /\ f[3] = "return"
       /\ \/ FirstOpenLoan(f[1], f[2]) = 0
          \/ f[4].d < transactions_json[FirstOpenLoan(f[1], f[2])].borrow_date

C6_RejectedRequestChangesNothing ==
    [][/\ (resp'.route \in {"transactions", "delete_transaction"} /\ resp'.cat = "error")
            => data' = data
       /\ \A f \in TxForms :
            (/\ ~(resp'.cat = "error" /\ data' = data)
             /\ today' = today
             /\ MustReject(f)) =>
               ~transactions_post(Librarian, f[1], f[2], f[3], f[4])
       /\ \A id \in 1..MaxId :
            (/\ ~(resp'.cat = "error" /\ data' = data)
             /\ today' = today
             /\ \A i \in 1..Len(transactions_json) :
                   transactions_json[i].id = id => transactions_json[i].return_date = NoDate) =>
               ~delete_transaction(Librarian, id)]_vars

\* a return by a member who holds no loan of the book, while another member does
C6_Witness ==
    /\ resp.flash = NoActiveLoan
    /\ \E i \in 1..Len(transactions_json) : transactions_json[i].return_date = NoDate

(***************************************************************************)
(* C7.  A request to a route that creates, edits or deletes books,         *)
(* members, transactions or reservations by a requester who is not logged  *)
(* in, or whose role is neither admin nor librarian, is redirected (to     *)
(* login, resp. to the dashboard) and no collection changes.               *)
(***************************************************************************)
MutatingRoutes ==
    {"books", "edit_book", "delete_book", "members", "edit_member", "delete_member",
     "transactions", "delete_transaction", "reservations", "edit_reservation",
     "cancel_reservation"}

C7_GateBeforeHandler ==
    [][(resp'.route \in MutatingRoutes /\ resp'.who \notin {"admin", "librarian"}) =>
         /\ data' = data
         /\ resp'.status = 302
         /\ resp'.to = (IF resp'.who = Anonymous THEN "login" ELSE "dashboard")
         /\ resp'.body = {}]_vars

\* a requester of role staff asked to delete a stored book and was sent to the dashboard
C7_Witness ==
    /\ resp.route = "delete_book"
    /\ resp.who = "staff"
    /\ resp.to = "dashboard"
    /\ books_json # <<>>

(***************************************************************************)
(* C8.  As claimed: no response to a requester who is not logged in holds  *)
(* the contents of the books or the members collection.                    *)
(***************************************************************************)
C8_NoAnonymousDisclosure ==
    resp.who = Anonymous => resp.body \cap {"books", "members"} = {}

(***************************************************************************)
(* C9.  For every client IP: the history never holds more than 100         *)
(* accepted requests, all of them less than 60 seconds older than the      *)
(* latest; a request that arrives while 100 accepted requests of the IP    *)
(* are less than 60 seconds old is answered with 429, is not recorded and  *)
(* changes no collection; and no response 429 comes with a change of a     *)
(* collection.                                                             *)
(***************************************************************************)
FreshRequests(ip) ==
    {i \in 1..Len(request_history[ip]) : clock - request_history[ip][i] <= RateWindow - 1}

C9_WindowHoldsAtMost100 ==
    \A ip \in DOMAIN request_history :
        LET h == request_history[ip]
        IN /\ Len(h) <= 100
           /\ \A i \in 1..Len(h) : h[Len(h)] - h[i] <= 59

C9_RateLimit ==
    /\ []C9_WindowHoldsAtMost100
    /\ [][/\ resp'.status = 429 => data' = data
          /\ \A ip \in DOMAIN request_history :
               (/\ request_history'[ip] # request_history[ip] \/ resp'.status = 429
                /\ clock' = clock
                /\ Cardinality(FreshRequests(ip)) >= 100
                /\ \A other \in DOMAIN request_history \ {ip} :
                      request_history'[other] = request_history[other]) =>
                  /\ resp'.status = 429
                  /\ data' = data
                  /\ Len(request_history'[ip]) <= Len(request_history[ip])]_vars

\* the delete request of a client that sent 100 requests 59 seconds ago gets 429
\* and the book is still stored
C9_Witness ==
    /\ resp.status = 429
    /\ clock = RateWindow - 1
    /\ Len(request_history["ip1"]) = 100
    /\ request_history["ip1"][100] = 0
    /\ books_json # <<>>

(***************************************************************************)
(* C10.  As claimed: every stored book has an isbn that passes the ISBN-10 *)
(* or the ISBN-13 checksum of is_valid_isbn.                               *)
(***************************************************************************)
C10_StoredIsbnValid ==
    \A i \in 1..Len(books_json) : is_valid_isbn(books_json[i].isbn)

(***************************************************************************)
(* C11.  As claimed: an add-book request with a non-empty title, author    *)
(* and isbn that is not stored yet is accepted exactly when its quantity   *)
(* is an integer >= 0 (0 included), and no stored book has a negative      *)
(* quantity.                                                               *)
(***************************************************************************)
C11_QuantityFromZeroAccepted ==
    /\ [](\A i \in 1..Len(books_json) : books_json[i].quantity >= 0)
    /\ [][\A isbn \in IsbnForms \ {<<>>}, q \in -1..MaxQty :
            (/\ \A i \in 1..Len(books_json) : books_json[i].isbn # isbn
             /\ books_post(Librarian, Title, Title, isbn, QtyText(q))) =>
               (resp'.cat = "success" <=> q >= 0)]_vars

(***************************************************************************)
(* C12.  A create-reservation request whose due date is a day before the   *)
(* current one is rejected and leaves reservations.json as it was; a       *)
(* request for a stored book by a stored member with a due date after the  *)
(* current day appends exactly one reservation, of status active.          *)
(***************************************************************************)
C12_DueDateDecidesReservation ==
    [][\A isbn \in ResIsbns, email \in ResEmails, d \in {today - 1, today + 1},
          later_today \in BOOLEAN :
         (/\ resp'.route = "reservations"
          /\ today' = today
          /\ reservations_post(Librarian, isbn, email, DateText(d), later_today)) =>
            /\ d < today =>
                  resp'.cat = "error" /\ reservations_json' = reservations_json
            /\ (d > today /\ IsBook(isbn) /\ IsMember(email)) =>
                  /\ resp'.cat = "success"
                  /\ Len(reservations_json') = Len(reservations_json) + 1
                  /\ SubSeq(reservations_json', 1, Len(reservations_json)) = reservations_json
                  /\ reservations_json'[Len(reservations_json')].status = "active"
                  /\ reservations_json'[Len(reservations_json')].book_isbn = isbn
                  /\ reservations_json'[Len(reservations_json')].member_email = email
                  /\ reservations_json'[Len(reservations_json')].due_date = DateText(d)]_vars

\* after one reservation was stored, a later request was refused for its due date
C12_Witness ==
    /\ Len(reservations_json) = 1
    /\ reservations_json[1].status = "active"
    /\ reservations_json[1].due_date.d > reservations_json[1].reserved_date
    /\ resp.route = "reservations"
    /\ resp.flash = "Please check the due date and ensure all fields are filled correctly."

(***************************************************************************)
(* C13.  As claimed: every stored reservation has a status among active,   *)
(* cancelled and completed.                                                *)
(***************************************************************************)
C13_StatusEnumerated ==
    \A i \in 1..Len(reservations_json) :
        reservations_json[i].status \in {"active", "cancelled", "completed"}

(***************************************************************************)
(* C14.  As claimed: a reservation that is stored stays stored, whatever   *)
(* the order in which the loads and the saves of the reservation requests  *)
(* follow one another.                                                     *)
(***************************************************************************)
C14_ReservationsNeverDeleted ==
    [][\A i \in 1..Len(reservations_json) :
          \E j \in 1..Len(reservations_json') :
              /\ reservations_json'[j].id = reservations_json[i].id
              /\ reservations_json'[j].book_isbn = reservations_json[i].book_isbn
              /\ reservations_json'[j].member_email = reservations_json[i].member_email
              /\ reservations_json'[j].reserved_date = reservations_json[i].reserved_date]_vars

(***************************************************************************)
(* C15.  As claimed: no two stored books have the same isbn and no two     *)
(* stored members have the same email.                                     *)
(***************************************************************************)
C15_KeysUnique ==
    /\ \A i, j \in 1..Len(books_json) :
          books_json[i].isbn = books_json[j].isbn => i = j
    /\ \A i, j \in 1..Len(members_json) :
          members_json[i].email = members_json[j].email => i = j

(***************************************************************************)
(* C16.  As claimed: the user record that init_user_storage created as the *)
(* seed admin (id 1) is in the user store in every reachable state, and a  *)
(* delete_user call on it returns False and leaves the store as it was.    *)
(***************************************************************************)
C16_SeedAdminKept ==
    /\ [](1 \in DOMAIN users_json)
    /\ [][(ret'.op = "delete_user" /\ delete_user(1)) =>
             (~ret'.ok /\ users_json' = users_json)]_vars

(***************************************************************************)
(* C17.  A load_data that directly follows a save_data of the same name    *)
(* that wrote its file returns the saved sequence: the same records in the *)
(* same order, each with the same keys and the same values of the same     *)
(* type.                                                                   *)
(***************************************************************************)
C17_SaveLoadRoundTrip ==
    [][\A name \in StoreNames :
          (/\ ret.op = "save_data"
           /\ ret.name = name
           /\ ret.ok
           /\ ret'.op = "load_data"
           /\ load_data_call(name)) =>
              (ret'.raised = "none" /\ ret'.value = ret.arg)]_vars

\* two records with a number, a string and a None were saved under a name
\* without '.json' and loaded again
C17_Witness ==
    /\ ret.op = "load_data"
    /\ ret.name = <<"b">>
    /\ Len(ret.value) = 2
    /\ ret.value[1][1] = <<"id", PyInt(1)>>
    /\ ret.value[1][3] = <<"return_date", PyNone>>
    /\ ret.value[2][1] = <<"isbn", PyStr(<<"9", "7", "8">>)>>

(***************************************************************************)
(* C19.  As claimed: load_data of a name whose file is absent or holds no  *)
(* valid JSON document returns the empty list and raises nothing.          *)
(***************************************************************************)
C19_LoadOfBadFileIsEmpty ==
    [][\A name \in StoreNames :
          (/\ raw_file[secure_filename(name)].kind # "json"
           /\ ret'.op = "load_data"
           /\ load_data_call(name)) =>
              (ret'.raised = "none" /\ ret'.value = <<>>)]_vars

(***************************************************************************)
(* C18.  As claimed: a delete of a book whose isbn is not stored leaves    *)
(* the books as they were and does not report success.                     *)
(***************************************************************************)
C18_DeleteOfMissingKeyNotSuccess ==
    [][\A key \in EditKeys :
          (/\ resp'.route = "delete_book"
           /\ get_record(books_json, "isbn", key) = <<>>
           /\ delete_book(Librarian, key)) =>
              (books_json' = books_json /\ resp'.cat # "success")]_vars

(***************************************************************************)
(* C20.  As claimed: a writing request (add, edit, delete of a book or a   *)
(* member; borrow, return, delete of a transaction; create, edit, cancel   *)
(* of a reservation) served while save_data fails and returns False does   *)
(* not report success.                                                     *)
(***************************************************************************)
C20_FailedSaveNotSuccess ==
    [][(/\ disk # "ok"
        /\ resp'.route \in MutatingRoutes
        /\ resp'.cat = "success"
        /\ DiskRequest) => FALSE]_vars

(***************************************************************************)
(* C21.  The overdue report lists exactly the open loans whose age in days *)
(* exceeds 14, in stored order, each with d = age - 14 and the tier        *)
(* Slightly Overdue for 1 <= d <= 14, Moderately Overdue for 15 <= d <= 30 *)
(* and Severely Overdue for d > 30; a loan aged 19 days has d = 5 and is   *)
(* Slightly Overdue.                                                       *)
(***************************************************************************)
C21_Tier(d) ==
    CASE d <= 14 -> "Slightly Overdue"
      [] d >= 15 /\ d <= 30 -> "Moderately Overdue"
      [] OTHER -> "Severely Overdue"

\* the open loans aged more than 14 days, in stored order
C21_Late == SelectSeq(transactions_json,
                      LAMBDA t : t.return_date = NoDate /\ (today - t.borrow_date) - 14 >= 1)

C21_OverdueTiers ==
    [][(/\ ret'.op = "generate_report_data"
        /\ generate_report_data(DateEmpty, DateEmpty)) =>
           /\ Len(ret'.value) = Len(C21_Late)
           /\ \A i \in 1..Len(C21_Late) :
                 LET row == ret'.value[i]
                     d == (today - C21_Late[i].borrow_date) - 14
                 IN /\ row.book_isbn = C21_Late[i].book_isbn
                    /\ row.borrow_date = C21_Late[i].borrow_date
                    /\ row.days_overdue = d
                    /\ row.status = C21_Tier(d)
                    /\ (today - row.borrow_date = 19) =>
                           (d = 5 /\ row.status = "Slightly Overdue")]_vars

C21_Witness ==
    /\ ret.op = "generate_report_data"
    /\ ret.arg = <<DateEmpty, DateEmpty>>
    /\ Len(transactions_json) = 2
    /\ Len(ret.value) = 1
    /\ ret.value[1].days_overdue = 15
    /\ ret.value[1].status = "Moderately Overdue"

(***************************************************************************)
(* C22.  As claimed: a load_data that runs while other threads save the    *)
(* same file returns a complete collection, the one the file held before   *)
(* or one that was saved; never the empty list or a part of a collection.  *)
(***************************************************************************)
C22_LoadSeesWholeCollection ==
    [][\A w \in Workers :
          (ret'.op = "load_data" /\ load_return(w)) =>
              ret'.value \in ({LockInitial} \cup LockRecords)]_vars

(***************************************************************************)
(* C23.  As claimed: a thread changes the text of the file only while it   *)
(* holds the exclusive lock, and when no save is in progress the file      *)
(* holds exactly the records of one save (or the initial ones).            *)
(***************************************************************************)
C23_WritesUnderLock ==
    /\ [][file_text' # file_text =>
             \E w \in Workers : calls[w].lock = "ex" /\ calls'[w] # calls[w]]_vars
    /\ []((\A w \in Workers : calls[w].pc \in {"idle", "load opened", "load locked", "load read"}) =>
             (/\ json_valid(file_text)
              /\ json_records(file_text) \in ({LockInitial} \cup LockRecords)))

(***************************************************************************)
(* C24.  As claimed: when the last of the requests in progress has saved,  *)
(* the stored transactions reflect every request that reported success:    *)
(* a record stored before is still stored unless this request deleted one, *)
(* a return date set before is still set, and a record not stored before   *)
(* is the one this request borrowed.                                       *)
(***************************************************************************)
C24_NoLostUpdate ==
    [][(\A w \in Workers : ~inflight'[w].busy) =>
          /\ \A i \in 1..Len(transactions_json) :
                \/ \E j \in 1..Len(transactions_json') :
                      /\ transactions_json'[j].id = transactions_json[i].id
                      /\ transactions_json[i].return_date # NoDate =>
                            transactions_json'[j].return_date = transactions_json[i].return_date
                \/ /\ resp'.route = "delete_transaction"
                   /\ resp'.cat = "success"
                   /\ Len(transactions_json') = Len(transactions_json) - 1
          /\ \A j \in 1..Len(transactions_json') :
                \/ \E i \in 1..Len(transactions_json) :
                      transactions_json[i].id = transactions_json'[j].id
                \/ /\ resp'.flash = "Book borrowed successfully!"
                   /\ Len(transactions_json') = Len(transactions_json) + 1]_vars

(***************************************************************************)
(* C25.  As claimed: no book and member have two active loans (stored      *)
(* transactions without return date) at once, whatever the quantity of the *)
(* book.                                                                   *)
(***************************************************************************)
C25_OneActiveLoanPerPair ==
    \A i, j \in 1..Len(transactions_json) :
        (/\ transactions_json[i].book_isbn = transactions_json[j].book_isbn
         /\ transactions_json[i].member_email = transactions_json[j].member_email
         /\ transactions_json[i].return_date = NoDate
         /\ transactions_json[j].return_date = NoDate) => i = j

(***************************************************************************)
(* C26.  With the requests served one at a time: an accepted return sets   *)
(* the return date of exactly one transaction, the first stored one of its *)
(* book and member that had none, and changes nothing else; a transaction  *)
(* whose return date is set keeps its place and all its fields under every *)
(* borrow and return, and leaves the collection only by a successful       *)
(* delete-transaction request.                                             *)
(***************************************************************************)
C26_SamePair(t, u) == t.book_isbn = u.book_isbn /\ t.member_email = u.member_email

C26_ReturnedIsTerminal ==
    [][/\ (resp'.route = "transactions" /\ resp'.flash = Returned
           /\ (transactions_json' # transactions_json \/ resp' # resp)) =>
             \E r \in 1..Len(transactions_json) :
                /\ transactions_json[r].return_date = NoDate
                /\ transactions_json'[r].return_date # NoDate
                /\ transactions_json' =
                      [transactions_json EXCEPT ![r].return_date = transactions_json'[r].return_date]
                /\ \A j \in 1..(r - 1) :
                      ~(/\ C26_SamePair(transactions_json[j], transactions_json[r])
                        /\ transactions_json[j].return_date = NoDate)
       /\ \A i \in 1..Len(transactions_json) :
             transactions_json[i].return_date # NoDate =>
                \/ /\ i <= Len(transactions_json')
                   /\ transactions_json'[i] = transactions_json[i]
                \/ /\ resp'.route = "delete_transaction"
                   /\ resp'.cat = "success"
                   /\ Len(transactions_json') = Len(transactions_json) - 1
                   /\ \/ \E j \in 1..Len(transactions_json') :
                            transactions_json'[j] = transactions_json[i]
                      \/ \A j \in 1..Len(transactions_json') :
                            transactions_json'[j].id # transactions_json[i].id]_vars

C26_Witness ==
    /\ resp.route = "transactions"
    /\ resp.flash = Returned
    /\ Len(transactions_json) = 2
    /\ C26_SamePair(transactions_json[1], transactions_json[2])
    /\ transactions_json[1].return_date # NoDate
    /\ transactions_json[2].return_date = NoDate
    /\ transactions_json[2].borrow_date <= transactions_json[1].return_date

(***************************************************************************)
(* SpecIds: the borrow/return engine of SpecLoans with the record of the   *)
(* ids that the accepted borrows have given out.  The program keeps no     *)
(* such record: issued is a history of the run, written by no handler and  *)
(* read by none.                                                           *)
(***************************************************************************)
FrozenIds == UNCHANGED <<today, ticks, request_history, clock, advances,
                         users_json, disk, inflight, raw_file, ret, locked_file>>

IdsPost ==
    /\ \E f \in TxForms : transactions_post(Librarian, f[1], f[2], f[3], f[4])
    /\ issued' = IF resp'.flash = Borrowed /\ Appended
                 THEN issued \cup {transactions_json'[Len(transactions_json')].id}
                 ELSE issued
    /\ FrozenIds

IdsDelete ==
    /\ \E id \in 1..MaxId : delete_transaction(Librarian, id)
    /\ UNCHANGED issued
    /\ FrozenIds

NextIds ==
    \/ IdsPost
    \/ IdsDelete
    \/ AdvanceDay

SpecIds == InitLoans /\ [][NextIds]_vars

(***************************************************************************)
(* C27.  With the requests served one at a time: the stored transaction    *)
(* ids are pairwise distinct in every reachable state, and an accepted     *)
(* borrow gives its record the greatest stored id plus 1 (1 when none is   *)
(* stored), an id greater than that of every stored transaction.           *)
(***************************************************************************)
C27_IdsDistinct ==
    \A i, j \in 1..Len(transactions_json) :
        transactions_json[i].id = transactions_json[j].id => i = j

C27_IdsAboveStored ==
    /\ []C27_IdsDistinct
    /\ [][(resp'.flash = Borrowed /\ Appended) =>
             LET new == transactions_json'[Len(transactions_json')].id
             IN /\ \A i \in 1..Len(transactions_json) : new > transactions_json[i].id
                /\ \/ /\ transactions_json = <<>>
                      /\ new = 1
                   \/ \E i \in 1..Len(transactions_json) : new = transactions_json[i].id + 1]_vars

\* borrow, borrow, return and delete of the first, borrow: ids 1, 2, 3 given,
\* 2 and 3 stored
C27_Witness ==
    /\ resp.flash = Borrowed
    /\ Len(transactions_json) = 2
    /\ transactions_json[1].id = 2
    /\ transactions_json[2].id = 3
    /\ issued = {1, 2, 3}

\* C27 as claimed: over any sequence of borrow, return and delete-transaction
\* requests, the id that an accepted borrow gives its transaction is greater
\* than every id given before, so no id is given twice.
C27_IdNeverAssignedTwice ==
    [][(resp'.flash = Borrowed /\ Appended) =>
          \A k \in issued : transactions_json'[Len(transactions_json')].id > k]_vars

(***************************************************************************)
(* C28.  As claimed: a register_user call that returns True adds exactly   *)
(* one user record and leaves every user record that was stored as it was. *)
(***************************************************************************)
C28_RegisterKeepsUsers ==
    [][(ret'.op = "register_user" /\ ret'.ok) =>
          /\ \A u \in DOMAIN users_json :
                u \in DOMAIN users_json' /\ users_json'[u] = users_json[u]
          /\ Cardinality(DOMAIN users_json') = Cardinality(DOMAIN users_json) + 1]_vars

(***************************************************************************)
(* C29.  As claimed: every active loan (stored transaction without return  *)
(* date) is of a stored book and of a stored member.                       *)
(***************************************************************************)
C29_ActiveLoansRefer ==
    \A i \in 1..Len(transactions_json) :
        transactions_json[i].return_date = NoDate =>
            /\ IsBook(transactions_json[i].book_isbn)
            /\ IsMember(transactions_json[i].member_email)

(***************************************************************************)
(* C30.  A request answered with 429 adds nothing to the history of the    *)
(* client; a request of a client with fewer than 100 recorded requests     *)
(* less than 60 seconds old is served and recorded; and a client that was  *)
(* answered 429 is served again at some later time, whatever it sent in    *)
(* between, when the clock moves on by the 60 seconds of the window.       *)
(***************************************************************************)
C30_RequestStep ==
    /\ clock' = clock
    /\ resp' # resp \/ request_history' # request_history

C30_EventuallyAdmitted ==
    /\ [][C30_RequestStep =>
            LET h == request_history["ip1"]
                hn == request_history'["ip1"]
            IN /\ resp'.status = 429 =>
                     /\ Len(hn) <= Len(h)
                     /\ \A i \in 1..Len(hn) : \E j \in 1..Len(h) : h[j] = hn[i]
               /\ Cardinality(FreshRequests("ip1")) < 100 =>
                     /\ resp'.status # 429
                     /\ Len(hn) = Cardinality(FreshRequests("ip1")) + 1
                     /\ hn[Len(hn)] = clock]_vars
    /\ (resp.status = 429 /\ clock + 60 <= MaxClock) ~> (resp.status = 200)

\* the client was answered 429 at second 0 with 100 requests in its history,
\* and the clock has reached second 60
C30_Witness ==
    /\ resp.status = 429
    /\ clock = 60
    /\ Len(request_history["ip1"]) = 100
    /\ request_history["ip1"][100] = 0

====
